---- MODULE Spec2Model ----
(***************************************************************************)
(* A model of the tool-calling agent: the agent control loop of            *)
(* core/loop.py (AgentLoop.run and AgentLoop._ensure_email_sent), the      *)
(* streaming protocol client of core/mcp_sse_client.py (MCPSseClient) and  *)
(* the handshake core/session.py (MultiMCP) runs on each connection of a   *)
(* stream backend.                                                         *)
(*                                                                         *)
(* Texts are sequences of tokens: a token is a word of the text that the   *)
(* code tests for (a prefix such as "FINAL_ANSWER:", a whitespace run, a   *)
(* tool name, an argument segment).  An error message and a tool result    *)
(* are abstracted to the set of keywords the code searches them for.       *)
(***************************************************************************)
EXTENDS Integers, Sequences, FiniteSets, TLC

\* ------------------------------------------------------------------ bounds

\* agent_profile.max_steps: a configured value, read at loop.py:132
MaxSteps == 3

\* default of the max_retries parameter of _ensure_email_sent
MaxRetries == 3

\* ------------------------------------------------------------------- texts

WS == " "
NL == "\n"
FA == "FINAL_ANSWER:"
FC == "FUNCTION_CALL:"

\* context.final_answer before any answer is recorded (falsy in `x or y`)
NoAnswer == <<>>

\* the literal of loop.py:156, 164 and 419
Placeholder == <<FA, "[no result]">>

\* the literal of loop.py:208
CouldNotExtract == <<FA, "[result found, but could not extract]">>

RECURSIVE LStrip(_)
LStrip(t) == IF t # <<>> /\ Head(t) \in {WS, NL} THEN LStrip(Tail(t)) ELSE t

RECURSIVE RStrip(_)
RStrip(t) ==
    IF t # <<>> /\ t[Len(t)] \in {WS, NL} THEN RStrip(SubSeq(t, 1, Len(t) - 1)) ELSE t

\* str.strip()
Strip(t) == RStrip(LStrip(t))

\* str.startswith(tok)
StartsWith(t, tok) == t # <<>> /\ t[1] = tok

\* tok in text
Contains(t, tok) == \E i \in 1..Len(t) : t[i] = tok

\* str.splitlines(): the text cut at every NL token
RECURSIVE SplitLines(_)
SplitLines(t) ==
    IF t = <<>> THEN <<>>
    ELSE IF ~Contains(t, NL) THEN <<t>>
    ELSE LET i == CHOOSE k \in 1..Len(t) : t[k] = NL /\ \A j \in 1..(k - 1) : t[j] # NL
         IN  <<SubSeq(t, 1, i - 1)>> \o SplitLines(SubSeq(t, i + 1, Len(t)))

\* -------------------------------------------------------------- perception

\* What extract_perception may hand back: a text, a PerceptionResult object,
\* or an exception.
PerceptionTexts ==
    { <<FA, "42">>,
      <<FA, "42", WS>>,
      <<NL, FA, "7", NL>>,
      <<"Original user task:", "q">>,
      <<"Your last tool produced this result", "r">>,
      <<"{perception}">>,
      <<WS, "{perception}">>,
      <<"{other}">>,
      <<"junk">> }

PerceptionOutcomes ==
    [kind : {"text"}, text : PerceptionTexts]
        \cup {[kind |-> "object", text |-> <<>>], [kind |-> "raise", text |-> <<>>]}

\* loop.py:149
PerceptionIsFinal(pr) == StartsWith(pr, FA)

\* loop.py:154
PerceptionIsEcho(pr) ==
    Contains(pr, "Your last tool produced this result") \/ Contains(pr, "Original user task:")

\* json.loads(pr_str) followed by PerceptionResult(**perception_raw):
\* "perception" decodes and validates, "other" decodes but does not validate,
\* "invalid" does not decode.
DecodePerception(pr) ==
    IF pr = <<"{perception}">> THEN "perception"
    ELSE IF pr = <<"{other}">> THEN "other"
    ELSE "invalid"

\* ------------------------------------------------------------------- tools

EmailTools == {"send_sheet_link", "send_email"}
RegisteredTools ==
    {"search", "search_documents", "create_google_sheet", "send_sheet_link", "send_email"}
PlannedTools == RegisteredTools \cup {"gmail_lookup"}

\* the substrings loop.py:388 looks for in the lowered error message
EmailKeywords == {"send_sheet_link", "send_email", "gmail"}

\* the keywords a tool name contains
NameKeywords(tool) == {k \in EmailKeywords : k = tool \/ (k = "gmail" /\ tool = "gmail_lookup")}

\* the declared parameter shape of each registered tool: the names of the
\* properties of the inputSchema its backend enumerates it with
ToolParameters(tool) ==
    IF tool \in {"search", "search_documents"} THEN <<"input">>
    ELSE IF tool = "create_google_sheet" THEN <<"title", "data">>
    ELSE <<"to", "sheet_url", "sheet_title">>

\* What self.tools holds for a registered tool: the record of the enumeration
\* response for a tool of a stream backend (session.py:177-181), the object
\* ClientSession.list_tools made of that record for a tool of a process
\* backend (session.py:105-111).  The object has the attributes of the
\* record: name, description, inputSchema.
ToolForm(tool) == IF tool = "search_documents" THEN "object" ELSE "dict"

\* loop.py:36-43: the keys of `parameters`.  The object has no attribute
\* named parameters, so getattr yields its default, {}.
Parameters(tool) == IF ToolForm(tool) = "dict" THEN ToolParameters(tool) ELSE <<>>

\* loop.py:19-45
tool_expects_input(tool) == tool \in RegisteredTools /\ Parameters(tool) = <<"input">>

\* ----------------------------------------------------------------- planner

ArgTokens == {"q=1", "input.title=T", "title=T", "a=5|a.b=3"}

PlanTexts ==
    { <<FA, "done">>,
      <<FA, "a", NL, WS, FA, "b", WS>>,
      <<"note", FA, "x">>,
      <<"hello">>,
      <<WS, FC, "search", "q=1">>,
      <<FC, "search", "q=", FA>> }
    \cup { <<FC, t, a>> : t \in PlannedTools, a \in ArgTokens }
    \cup { <<FC, t>> : t \in PlannedTools }

PlanOutcomes ==
    [kind : {"text"}, text : PlanTexts] \cup {[kind |-> "raise", text |-> <<>>]}

\* loop.py:204-208
FinalFromPlan(plan) ==
    LET lines == SplitLines(plan)
        idx == {i \in 1..Len(lines) : StartsWith(Strip(lines[i]), FA)}
    IN  IF idx # {}
        THEN Strip(lines[CHOOSE i \in idx : \A j \in idx : j <= i])
        ELSE CouldNotExtract

\* parse_function_call as far as the loop depends on it: whether it raises,
\* the tool name, the top-level keys of the argument map and the title the
\* arguments carry ("none" when they carry none).  The message of a parser
\* error names none of the e-mail keywords.
parse_function_call(plan) ==
    IF ~StartsWith(plan, FC) \/ Len(plan) < 2
    THEN [ok |-> FALSE, tool |-> "", keys |-> {}, title |-> "none", nested |-> FALSE]
    ELSE IF Len(plan) = 2
    THEN [ok |-> TRUE, tool |-> plan[2], keys |-> {}, title |-> "none", nested |-> FALSE]
    ELSE IF plan[3] = "a=5|a.b=3"
    THEN [ok |-> FALSE, tool |-> "", keys |-> {}, title |-> "none", nested |-> FALSE]
    ELSE IF plan[3] = "input.title=T"
    THEN [ok |-> TRUE, tool |-> plan[2], keys |-> {"input"}, title |-> "T", nested |-> TRUE]
    ELSE IF plan[3] = "title=T"
    THEN [ok |-> TRUE, tool |-> plan[2], keys |-> {"title"}, title |-> "T", nested |-> FALSE]
    ELSE [ok |-> TRUE, tool |-> plan[2], keys |-> {"q"}, title |-> "none", nested |-> FALSE]

\* loop.py:216-219: the top-level keys of the argument map that is sent
WrapInput(tool, keys) ==
    IF tool_expects_input(tool) /\ "input" \notin keys THEN {"input"} ELSE keys

\* ------------------------------------------------------------ tool results

\* The keywords the code looks for in a delivery status.
Vocabulary == {"sent", "simulated", "failed", "error", "exception"}

WordSets ==
    {{}, {"sent"}, {"simulated"}, {"failed"}, {"sent", "failed"}, {"error"}, {"sent", "error"}}

\* What call_tool may return.  dict: the first content item is a JSON object;
\* words: the keywords in its status field (dict) or in the whole text (not
\* dict); mid: its message_id field mentions "failed"; url: a spreadsheet URL
\* can be extracted from it; title: a title can be extracted from it.
ToolResults ==
    {r \in [dict : BOOLEAN, words : WordSets, mid : BOOLEAN, url : BOOLEAN, title : BOOLEAN] :
        (r.mid => r.dict) /\ (r.title => r.url)}

\* What call_tool may raise.  src: where the exception is built; text: the
\* e-mail keywords in the text the backend or the transport contributes.
ToolErrors == [src : {"notfound", "comm", "rpc", "connect"}, text : {{}, {"gmail"}}]

\* The errors call_tool can raise for a tool: session.py:193-195 raises for a
\* name absent from the registry before any connection is opened.
ErrorsOf(tool) ==
    IF tool \in RegisteredTools
    THEN {e \in ToolErrors : e.src # "notfound"}
    ELSE {e \in ToolErrors : e.src = "notfound" /\ e.text = {}}

\* The e-mail keywords in str(e): session.py:195 and session.py:266 put the
\* tool name into the message, session.py:274 and the connection errors of
\* mcp_sse_client.py do not.
ErrorMessage(tool, e) ==
    IF e.src = "notfound" THEN NameKeywords(tool)
    ELSE IF e.src = "comm" THEN NameKeywords(tool) \cup e.text
    ELSE e.text

\* (variant used to test the claims: every error takes the e-mail branch)
IsEmailErrorAlways(msg) == TRUE
\* loop.py:388
IsEmailError(msg) == msg \cap EmailKeywords # {}

\* (variant used to test the claims: a failed status clears the flag)
TrackEmailResets(sent, r) ==
    IF r.dict
    THEN IF ("sent" \in r.words \/ "simulated" \in r.words) /\ "failed" \notin r.words
         THEN TRUE
         ELSE IF "failed" \in r.words \/ r.mid THEN FALSE ELSE sent
    ELSE IF "sent" \in r.words /\ "failed" \notin r.words THEN TRUE
         ELSE IF "failed" \in r.words THEN FALSE ELSE sent
\* loop.py:336-354: the value of email_sent after a delivery tool returned
TrackEmail(sent, r) ==
    IF r.dict
    THEN IF ("sent" \in r.words \/ "simulated" \in r.words) /\ "failed" \notin r.words
         THEN TRUE
         ELSE sent
    ELSE IF "sent" \in r.words /\ "failed" \notin r.words THEN TRUE ELSE sent

\* loop.py:304-316: the title stored with a created sheet ("none": none)
SheetTitle(parsed, r) ==
    IF parsed.nested /\ parsed.title # "none" THEN parsed.title
    ELSE IF r.title THEN "T" ELSE "none"

\* (variant used to test the claims: only a status without any vocabulary
\* counts as delivered)
ClassifyAttemptRetriesSent(r) ==
    IF "failed" \in r.words \/ "sent" \in r.words \/ "simulated" \in r.words THEN "failed"
    ELSE IF "error" \notin r.words /\ "exception" \notin r.words THEN "assumed"
    ELSE "unclear"
\* loop.py:97-113: how a compensation attempt classifies the returned status
ClassifyAttempt(r) ==
    IF ("sent" \in r.words \/ "simulated" \in r.words) /\ "failed" \notin r.words THEN "sent"
    ELSE IF "failed" \in r.words THEN "failed"
    ELSE IF "error" \notin r.words /\ "exception" \notin r.words THEN "assumed"
    ELSE "unclear"

\* loop.py:121
Backoff(attempt) == 2 ^ attempt

\* (variant used to test the claims: email_sent is not consulted)
NeedsCompensationIgnoresFlag(created, sent, url) == created /\ url # "none"
\* loop.py:415
NeedsCompensation(created, sent, url) == created /\ ~sent /\ url # "none"

\* loop.py:419
RunReturn(answer) == IF answer = NoAnswer THEN Placeholder ELSE answer

\* ------------------------------------------------------------------- state

VARIABLES
    pc,            \* where AgentLoop.run stands
    step,          \* context.step
    nextStep,      \* the next value of range(max_steps)
    query,         \* the kind of text in the local `query`
    final_answer,  \* context.final_answer
    email_sent,    \* context.email_sent
    sheet_created, \* context.sheet_created
    sheet_url,     \* context.sheet_url
    sheet_title,   \* context.sheet_title
    memory,        \* the MemoryItems added to context.memory
    call,          \* the call_tool in flight
    attempt,       \* the loop variable of _ensure_email_sent
    outcome,       \* how run ended: its return value, or a raise
    stepLog,       \* history: the values assigned to context.step
    phases,        \* history: what the current step has done
    stepCalls,     \* history: the tool calls the current step has started
    issued,        \* history: the call_tool calls the run has started
    inflight,      \* history: the number of call_tool awaits not yet ended
    compLog,       \* history: the compensation's calls ("call") and sleeps (delay)
    flips,         \* history: the number of times email_sent went false -> true
    event          \* history: what ended or diverted the current step

loopVars == <<pc, step, nextStep, query, final_answer, email_sent, sheet_created,
              sheet_url, sheet_title, memory, call, attempt, outcome, stepLog,
              phases, stepCalls, issued, inflight, compLog, flips, event>>

NoCall == [tool |-> "", keys |-> {}, title |-> "none", nested |-> FALSE]
NoEvent == [kind |-> "none", text |-> <<>>, tool |-> "", msg |-> {}, before |-> <<>>]
Running == [kind |-> "running", value |-> <<>>]

\* AgentContext as run finds it: no answer, no sheet, nothing sent, step 0.
AgentContextInit ==
    /\ step = 0
    /\ final_answer = NoAnswer
    /\ email_sent = FALSE
    /\ sheet_created = FALSE
    /\ sheet_url = "none"
    /\ sheet_title = "none"
    /\ memory = <<>>

\* AgentLoop.__init__ and the first lines of run
LoopInit ==
    /\ AgentContextInit
    /\ pc = "loop"
    /\ nextStep = 0
    /\ query = "user_input"
    /\ call = NoCall
    /\ attempt = 0
    /\ outcome = Running
    /\ stepLog = <<>>
    /\ phases = {}
    /\ stepCalls = 0
    /\ issued = 0
    /\ inflight = 0
    /\ compLog = <<>>
    /\ flips = 0
    /\ event = NoEvent

Flip(old, new) == IF ~old /\ new THEN flips + 1 ELSE flips

\* ------------------------------------------------------- the main loop

\* loop.py:135-137: the next iteration of `for step in range(max_steps)`
StepBegin ==
    /\ pc = "loop"
    /\ nextStep < MaxSteps
    /\ step' = nextStep
    /\ nextStep' = nextStep + 1
    /\ stepLog' = Append(stepLog, nextStep)
    /\ phases' = {}
    /\ stepCalls' = 0
    /\ event' = NoEvent
    /\ pc' = "perceive"
    /\ UNCHANGED <<query, final_answer, email_sent, sheet_created, sheet_url, sheet_title,
                   memory, call, attempt, outcome, issued, inflight, compLog, flips>>

\* loop.py:135: range(max_steps) is exhausted
StepsExhausted ==
    /\ pc = "loop"
    /\ nextStep >= MaxSteps
    /\ pc' = "post"
    /\ event' = [NoEvent EXCEPT !.kind = "exhausted"]
    /\ UNCHANGED <<step, nextStep, query, final_answer, email_sent, sheet_created, sheet_url,
                   sheet_title, memory, call, attempt, outcome, stepLog, phases, stepCalls, issued,
                   inflight, compLog, flips>>

\* (variant used to test the claims: the exception leaves run)
PropagateStepFault ==
    /\ pc' = "done"
    /\ outcome' = [kind |-> "raised", value |-> <<>>]
    /\ event' = [NoEvent EXCEPT !.kind = "fault"]
\* loop.py:411-412: an exception escaping a step is caught and logged
CatchStepFault ==
    /\ pc' = "post"
    /\ outcome' = outcome
    /\ event' = [NoEvent EXCEPT !.kind = "fault"]

\* (variant used to test the claims: the break is missing)
RecordFinalAnswerNoBreak(pr) == final_answer' = pr /\ pc' = "retrieve"
\* loop.py:150-151: the answer is recorded and the loop is left
RecordFinalAnswer(pr) == final_answer' = pr /\ pc' = "post"

\* loop.py:139-182: perception and what the loop makes of its output
Perceive(o) ==
    /\ pc = "perceive"
    /\ phases' = phases \cup {"perceive"}
    /\ LET pr == Strip(o.text)
       IN  IF o.kind = "raise"
           THEN /\ CatchStepFault
                /\ UNCHANGED final_answer
           ELSE IF o.kind = "object"
           THEN /\ pc' = "retrieve"
                /\ UNCHANGED <<final_answer, event, outcome>>
           ELSE /\ event' = [NoEvent EXCEPT !.kind = "perception", !.text = o.text]
                /\ UNCHANGED outcome
                /\ IF PerceptionIsFinal(pr)
                   THEN RecordFinalAnswer(pr)
                   ELSE IF PerceptionIsEcho(pr) \/ DecodePerception(pr) = "invalid"
                   THEN final_answer' = Placeholder /\ pc' = "post"
                   ELSE IF DecodePerception(pr) = "other"
                   THEN pc' = "post" /\ UNCHANGED final_answer
                   ELSE pc' = "retrieve" /\ UNCHANGED final_answer
    /\ UNCHANGED <<step, nextStep, query, email_sent, sheet_created, sheet_url, sheet_title,
                   memory, call, attempt, stepLog, stepCalls, issued, inflight, compLog, flips>>

\* loop.py:185-190: memory.retrieve returns (ok) or raises
Retrieve(ok) ==
    /\ pc = "retrieve"
    /\ phases' = phases \cup {"retrieve"}
    /\ IF ok
       THEN pc' = "plan" /\ UNCHANGED <<event, outcome>>
       ELSE CatchStepFault
    /\ UNCHANGED <<step, nextStep, query, final_answer, email_sent, sheet_created, sheet_url,
                   sheet_title, memory, call, attempt, stepLog, stepCalls, issued, inflight,
                   compLog, flips>>

\* (variant used to test the claims: the step plans again instead)
RetryInStep == pc' = "plan"
\* loop.py:406: the loop goes on with its next iteration
ContinueLoop == pc' = "loop"

\* loop.py:382-409: the handler of an exception raised by the parser or the
\* tool call, with the keywords of str(e)
HandleToolException(msg) ==
    IF IsEmailError(msg)
    THEN /\ memory' = Append(memory, [type |-> "tool_error", tool_name |-> "send_sheet_link"])
         /\ query' = "email_failure"
         /\ ContinueLoop
    ELSE /\ pc' = "post"
         /\ UNCHANGED <<memory, query>>

\* loop.py:194-221: planning, the final-answer test, parsing, wrapping and
\* the start of the tool call
Plan(o) ==
    /\ pc = "plan"
    /\ phases' = phases \cup {"plan"}
    /\ IF o.kind = "raise"
       THEN /\ CatchStepFault
            /\ UNCHANGED <<final_answer, memory, query, call, stepCalls, issued, inflight>>
       ELSE IF Contains(o.text, FA)
       THEN /\ final_answer' = FinalFromPlan(o.text)
            /\ pc' = "post"
            /\ event' = [NoEvent EXCEPT !.kind = "plan_final", !.text = o.text]
            /\ UNCHANGED <<memory, query, call, stepCalls, issued, inflight, outcome>>
       ELSE LET parsed == parse_function_call(o.text)
            IN  IF ~parsed.ok
                THEN /\ HandleToolException({})
                     /\ event' = [NoEvent EXCEPT !.kind = "parse_raise", !.text = o.text,
                                                 !.before = final_answer]
                     /\ UNCHANGED <<final_answer, call, stepCalls, issued, inflight, outcome>>
                ELSE /\ call' = [tool |-> parsed.tool,
                                 keys |-> WrapInput(parsed.tool, parsed.keys),
                                 title |-> parsed.title, nested |-> parsed.nested]
                     /\ stepCalls' = stepCalls + 1
                     /\ issued' = issued + 1
                     /\ inflight' = inflight + 1
                     /\ pc' = "calling"
                     /\ UNCHANGED <<final_answer, memory, query, event, outcome>>
    /\ UNCHANGED <<step, nextStep, email_sent, sheet_created, sheet_url, sheet_title, attempt,
                   stepLog, compLog, flips>>

\* loop.py:221-381: the tool call returns r; tracking, memory, next query.
\* stored: whether context.add_memory returns (it raises otherwise, which
\* loop.py:411 catches).
ToolReturns(r, stored) ==
    /\ pc = "calling"
    /\ phases' = phases \cup {"act"}
    /\ inflight' = inflight - 1
    /\ call' = NoCall
    /\ IF call.tool = "create_google_sheet" /\ r.url
       THEN /\ sheet_url' = "url"
            /\ sheet_created' = TRUE
            /\ sheet_title' = IF SheetTitle(call, r) # "none" THEN SheetTitle(call, r)
                              ELSE sheet_title
       ELSE UNCHANGED <<sheet_url, sheet_created, sheet_title>>
    /\ email_sent' = IF call.tool \in EmailTools THEN TrackEmail(email_sent, r) ELSE email_sent
    /\ flips' = Flip(email_sent, email_sent')
    /\ IF stored
       THEN /\ memory' = Append(memory, [type |-> "tool_output", tool_name |-> call.tool])
            /\ query' = "tool_result"
            /\ pc' = "loop"
            /\ UNCHANGED <<event, outcome>>
       ELSE /\ CatchStepFault
            /\ UNCHANGED <<memory, query>>
    /\ UNCHANGED <<step, nextStep, final_answer, attempt, stepLog, stepCalls, issued, compLog>>

\* loop.py:382-409: the tool call raises e.  stored: whether the
\* context.add_memory of the e-mail branch returns (it raises otherwise, out of
\* the handler, which loop.py:411 catches).
ToolRaises(e, stored) ==
    /\ pc = "calling"
    /\ e \in ErrorsOf(call.tool)
    /\ phases' = phases \cup {"act"}
    /\ inflight' = inflight - 1
    /\ call' = NoCall
    /\ IF IsEmailError(ErrorMessage(call.tool, e)) /\ ~stored
       THEN /\ CatchStepFault
            /\ UNCHANGED <<memory, query>>
       ELSE /\ HandleToolException(ErrorMessage(call.tool, e))
            /\ event' = [NoEvent EXCEPT !.kind = "tool_raise", !.tool = call.tool,
                                        !.msg = ErrorMessage(call.tool, e),
                                        !.before = final_answer]
            /\ UNCHANGED outcome
    /\ UNCHANGED <<step, nextStep, final_answer, email_sent, sheet_created, sheet_url,
                   sheet_title, attempt, stepLog, stepCalls, issued, compLog, flips>>

\* ------------------------------------------------------ the compensation

\* loop.py:419: run returns
Return ==
    /\ outcome' = [kind |-> "returned", value |-> RunReturn(final_answer)]
    /\ pc' = "done"

\* loop.py:414-419: after the loop, the test that starts the compensation
AfterLoop ==
    /\ pc = "post"
    /\ IF NeedsCompensation(sheet_created, email_sent, sheet_url)
       THEN /\ pc' = "comp"
            /\ attempt' = 0
            /\ UNCHANGED outcome
       ELSE /\ Return
            /\ UNCHANGED attempt
    /\ UNCHANGED <<step, nextStep, query, final_answer, email_sent, sheet_created, sheet_url,
                   sheet_title, memory, call, stepLog, phases, stepCalls, issued, inflight, compLog,
                   flips, event>>

\* loop.py:63-72: an attempt calls send_sheet_link
CompAttempt ==
    /\ pc = "comp"
    /\ attempt < MaxRetries
    /\ call' = [NoCall EXCEPT !.tool = "send_sheet_link",
                              !.keys = {"to", "sheet_url", "sheet_title"}]
    /\ inflight' = inflight + 1
    /\ compLog' = Append(compLog, 0)
    /\ issued' = issued + 1
    /\ pc' = "comp_calling"
    /\ UNCHANGED <<step, nextStep, query, final_answer, email_sent, sheet_created, sheet_url,
                   sheet_title, memory, attempt, outcome, stepLog, phases, stepCalls, flips,
                   event>>

\* loop.py:63: range(max_retries) is exhausted, _ensure_email_sent and run return
CompExhausted ==
    /\ pc = "comp"
    /\ attempt >= MaxRetries
    /\ Return
    /\ UNCHANGED <<step, nextStep, query, final_answer, email_sent, sheet_created, sheet_url,
                   sheet_title, memory, call, attempt, stepLog, phases, stepCalls, issued, inflight,
                   compLog, flips, event>>

\* loop.py:74-113: the delivery call of an attempt returns r
CompReturns(r) ==
    /\ pc = "comp_calling"
    /\ inflight' = inflight - 1
    /\ call' = NoCall
    /\ IF ClassifyAttempt(r) \in {"sent", "assumed"}
       THEN /\ email_sent' = TRUE
            /\ Return
            /\ UNCHANGED attempt
       ELSE /\ attempt' = attempt + 1
            /\ pc' = "comp"
            /\ UNCHANGED <<email_sent, outcome>>
    /\ flips' = Flip(email_sent, email_sent')
    /\ UNCHANGED <<step, nextStep, query, final_answer, sheet_created, sheet_url, sheet_title,
                   memory, stepLog, phases, stepCalls, issued, compLog, event>>

\* loop.py:115-126: the delivery call of an attempt raises
CompRaises(e) ==
    /\ pc = "comp_calling"
    /\ e \in ErrorsOf("send_sheet_link")
    /\ inflight' = inflight - 1
    /\ call' = NoCall
    /\ compLog' = IF attempt < MaxRetries - 1 THEN Append(compLog, Backoff(attempt))
                  ELSE compLog
    /\ attempt' = attempt + 1
    /\ pc' = "comp"
    /\ UNCHANGED <<step, nextStep, query, final_answer, email_sent, sheet_created, sheet_url,
                   sheet_title, memory, outcome, stepLog, phases, stepCalls, issued, flips, event>>

\* ------------------------------------------------- the streaming client

\* the number of stream lines the reader is followed through
MaxLines == 4

\* the number of send_message / send_notification calls made on one client
MaxCalls == 2

\* A session token is a sequence of characters; "a" and "7" stand for the
\* lower-case hexadecimal digits, "Z" for any character outside [a-f0-9-].
Tokens == {<<"a", "7">>, <<"a", "-", "7">>, <<"a", "Z">>, <<"Z", "a">>, <<"-">>}

\* the character class [a-f0-9-] of mcp_sse_client.py:138
InClass(c) == c \in {"a", "7", "-"}

\* re.search(r'session_id=([a-f0-9-]+)', data) on a data text that holds
\* `session_id=` followed by tok: the longest run of class characters that
\* starts tok, <<>> when the pattern does not match
RECURSIVE ExtractSessionId(_)
ExtractSessionId(tok) ==
    IF tok # <<>> /\ InClass(Head(tok)) THEN <<Head(tok)>> \o ExtractSessionId(Tail(tok))
    ELSE <<>>

\* The lines the stream can carry: an empty line, an `event: ` line, a
\* `data: ` line (with session_id=tok in it, or a JSON message with an id, or
\* plain text) and a line with neither prefix.  id: the id member of the JSON
\* message (0: the data is no JSON object with an id); err: the message has
\* an error member.
EventNames == {"endpoint", "message", "ping"}
StreamLines ==
    {[kind |-> "blank", name |-> "", sid |-> FALSE, tok |-> <<>>, id |-> 0, err |-> FALSE],
     [kind |-> "other", name |-> "", sid |-> FALSE, tok |-> <<>>, id |-> 0, err |-> FALSE]}
    \cup {[kind |-> "event", name |-> n, sid |-> FALSE, tok |-> <<>>, id |-> 0, err |-> FALSE] :
             n \in EventNames}
    \cup {[kind |-> "data", name |-> "", sid |-> TRUE, tok |-> t, id |-> 0, err |-> FALSE] :
             t \in Tokens}
    \cup {[kind |-> "data", name |-> "", sid |-> FALSE, tok |-> <<>>, id |-> 0, err |-> FALSE]}
    \cup {[kind |-> "data", name |-> "", sid |-> FALSE, tok |-> <<>>, id |-> i, err |-> e] :
             i \in 1..MaxCalls, e \in BOOLEAN}

VARIABLES
    open_state,        \* where the `async with MCPSseClient(...)` stands
    http_session,      \* self._session: "none", "open" or "closed"
    sse_stream,        \* the GET stream: "none", "open", "ended", "failed", "closed"
    sse_task,          \* self._sse_task: "none", "running", "finished", "cancelled"
    current_event,     \* the reader's local current_event ("none": None)
    session_id,        \* self._session_id (<<>>: None)
    session_id_event,  \* self._session_id_event is set
    request_counter,   \* self._request_counter
    pending_requests,  \* self._pending_requests: id -> the state of its future
    linesRead,         \* history: the number of lines the reader has taken
    sidSeen,           \* history: the tokens of the endpoint data lines with
                       \* session_id= that the reader took before open ended
    openToken,         \* history: session_id when open completed or failed
    calls,             \* the send_message / send_notification calls made on the
                       \* client, in the order they were made
    posted,            \* history: the messages handed to the POST endpoint
    late,              \* history: the ids of the responses that arrived when
                       \* the slot of that id was done or already removed
    conn_pc            \* where MultiMCP stands on its stream-backend connection

sseVars == <<open_state, http_session, sse_stream, sse_task, current_event, session_id,
             session_id_event, request_counter, pending_requests, linesRead, sidSeen,
             openToken, calls, posted, late>>

clientVars == <<sseVars, conn_pc>>

\* MultiMCP (session.py:59-203)
VARIABLES
    server_configs,  \* the transport member of every configured backend, in order
    tool_map,        \* tool name -> index of the backend in its entry (0: no entry)
    reg_pc,          \* "initializing", "initialized", "raised"
    reg_i,           \* how many iterations of the loop of initialize have run
    enumerated,      \* history: outcome and tools of every enumeration so far
    opened,          \* history: the connections and subprocesses opened so far
    tool_calls       \* history: the call_tool calls made so far

registryVars == <<server_configs, tool_map, reg_pc, reg_i, enumerated, opened, tool_calls>>

\* parse_function_call (action.py:24-146)
VARIABLES
    response,        \* the text the function is called with
    parse_pc,        \* "start", "params" (in the loop of line 101), "returned", "raised"
    tool_name,
    param_parts,
    part_i,          \* how many elements of param_parts the loop has taken
    args,
    error            \* the type of the exception that left the function

parserVars == <<response, parse_pc, tool_name, param_parts, part_i, args, error>>

\* the webhook of telegram_webhook.py
VARIABLES
    processed_updates, \* the module's set of update ids
    deliveries,        \* history: the number of deliveries handled
    received,          \* history: the update ids of the deliveries handled
    launches,          \* history: per update id, the background tasks created for it
    delivery           \* history: the last delivery handled

webhookVars == <<processed_updates, deliveries, received, launches, delivery>>

restVars == <<registryVars, parserVars, webhookVars>>

vars == <<loopVars, clientVars, restVars>>

\* MCPSseClient.__init__
SseInit ==
    /\ open_state = "idle"
    /\ http_session = "none"
    /\ sse_stream = "none"
    /\ sse_task = "none"
    /\ current_event = "none"
    /\ session_id = <<>>
    /\ session_id_event = FALSE
    /\ request_counter = 0
    /\ pending_requests = <<>>
    /\ linesRead = 0
    /\ sidSeen = <<>>
    /\ openToken = <<>>
    /\ calls = <<>>
    /\ posted = <<>>
    /\ late = {}
    /\ conn_pc = "start"

\* mcp_sse_client.py:53-94: __aenter__ creates the HTTP client and opens the
\* stream; connected: the GET succeeds with a success status and the reader
\* task is started; otherwise a ConnectionError leaves __aenter__.
Enter(connected) ==
    /\ open_state = "idle"
    /\ http_session' = "open"
    /\ IF connected
       THEN /\ sse_stream' = "open"
            /\ sse_task' = "running"
            /\ open_state' = "waiting"
       ELSE /\ open_state' = "failed_connect"
            /\ UNCHANGED <<sse_stream, sse_task>>
    /\ UNCHANGED <<current_event, session_id, session_id_event, request_counter,
                   pending_requests, linesRead, sidSeen, openToken, calls, posted, late, loopVars>>

\* (variant used to test the claims: the event type is not consulted)
IsEndpointDataAnyEvent(ev, line) == line.sid
\* mcp_sse_client.py:136
IsEndpointData(ev, line) == ev = "endpoint" /\ line.sid

\* asyncio.Future(): state is "pending", "result" or "error"; id and err
\* describe the message it was fulfilled with
NewFuture == [state |-> "pending", id |-> 0, err |-> FALSE]

\* future.set_result(message)
SetResult(msg) == [state |-> "result", id |-> msg.id, err |-> msg.err]

\* future.set_exception(e)
SetException == [state |-> "error", id |-> 0, err |-> FALSE]

\* (variant used to test the claims: the oldest pending future is fulfilled,
\* whatever the id of the message)
DeliverInArrivalOrder(table, msg) ==
    LET waiting == {k \in DOMAIN table : table[k].state = "pending"}
    IN  IF waiting # {}
        THEN [table EXCEPT ![CHOOSE k \in waiting : \A j \in waiting : k <= j] = SetResult(msg)]
        ELSE table
\* (variant used to test the claims: future.done() is not consulted)
DeliverMessageAgain(table, msg) ==
    IF msg.id \in DOMAIN table THEN [table EXCEPT ![msg.id] = SetResult(msg)] ELSE table
\* mcp_sse_client.py:153-158: a message with an id fulfils the pending future
\* of that id, if the table has one that is not done
DeliverMessage(table, msg) ==
    IF msg.id \in DOMAIN table /\ table[msg.id].state = "pending"
    THEN [table EXCEPT ![msg.id] = SetResult(msg)]
    ELSE table

\* mcp_sse_client.py:147 and 153: the data line is handled as a protocol
\* message with an id
IsResponse(ev, line) == ev \in {"message", "none"} /\ ~line.sid /\ line.id # 0

\* mcp_sse_client.py:172-174: every future that is not done is failed
FailPending(table) ==
    [k \in DOMAIN table |-> IF table[k].state = "pending" THEN SetException ELSE table[k]]

\* mcp_sse_client.py:122-164: the reader takes one line of the stream
ReaderLine(line) ==
    /\ sse_task = "running"
    /\ sse_stream = "open"
    /\ linesRead < MaxLines
    /\ linesRead' = linesRead + 1
    /\ sidSeen' = IF open_state = "waiting" /\ line.kind = "data" /\ line.sid
                     /\ current_event = "endpoint"
                  THEN Append(sidSeen, line.tok) ELSE sidSeen
    /\ IF line.kind \in {"blank", "other"}
       THEN UNCHANGED <<current_event, session_id, session_id_event, pending_requests>>
       ELSE IF line.kind = "event"
       THEN /\ current_event' = line.name
            /\ UNCHANGED <<session_id, session_id_event, pending_requests>>
       ELSE IF IsEndpointData(current_event, line) /\ ExtractSessionId(line.tok) # <<>>
       THEN /\ session_id' = ExtractSessionId(line.tok)
            /\ session_id_event' = TRUE
            /\ current_event' = "none"
            /\ UNCHANGED pending_requests
       ELSE /\ pending_requests' =
                 IF IsResponse(current_event, line)
                 THEN DeliverMessage(pending_requests, line)
                 ELSE pending_requests
            /\ current_event' = "none"
            /\ UNCHANGED <<session_id, session_id_event>>
    /\ late' = IF /\ line.kind = "data"
                  /\ ~(IsEndpointData(current_event, line) /\ ExtractSessionId(line.tok) # <<>>)
                  /\ IsResponse(current_event, line)
                  /\ line.id <= request_counter
                  /\ (line.id \in DOMAIN pending_requests =>
                         pending_requests[line.id].state # "pending")
               THEN late \cup {line.id} ELSE late
    /\ UNCHANGED <<open_state, http_session, sse_stream, sse_task, request_counter,
                   openToken, calls, posted, loopVars>>

\* mcp_sse_client.py:122: the server closes the stream and aiter_lines ends;
\* the reader task returns
StreamEnds ==
    /\ sse_task = "running"
    /\ sse_stream = "open"
    /\ sse_stream' = "ended"
    /\ sse_task' = "finished"
    /\ UNCHANGED <<open_state, http_session, current_event, session_id, session_id_event,
                   request_counter, pending_requests, linesRead, sidSeen, openToken,
                   calls, posted, late, loopVars>>

\* mcp_sse_client.py:166-174: reading the stream raises; every pending future
\* that is not done is failed and the reader task returns
StreamFails ==
    /\ sse_task = "running"
    /\ sse_stream = "open"
    /\ sse_stream' = "failed"
    /\ sse_task' = "finished"
    /\ pending_requests' = FailPending(pending_requests)
    /\ UNCHANGED <<open_state, http_session, current_event, session_id, session_id_event,
                   request_counter, linesRead, sidSeen, openToken, calls, posted, late, loopVars>>

\* mcp_sse_client.py:98, 105-106 and 58: the wait for the event returns;
\* __aenter__ returns the client
WaitReturns ==
    /\ open_state = "waiting"
    /\ session_id_event
    /\ open_state' = IF session_id # <<>> THEN "ready" ELSE "failed_runtime"
    /\ openToken' = session_id
    /\ UNCHANGED <<http_session, sse_stream, sse_task, current_event, session_id,
                   session_id_event, request_counter, pending_requests, linesRead, sidSeen,
                   calls, posted, late, loopVars>>

\* mcp_sse_client.py:98-103: the 5 seconds pass with the event not set;
\* TimeoutError leaves __aenter__ (and __aexit__ is not run)
WaitTimesOut ==
    /\ open_state = "waiting"
    /\ ~session_id_event
    /\ open_state' = "failed_timeout"
    /\ openToken' = session_id
    /\ UNCHANGED <<http_session, sse_stream, sse_task, current_event, session_id,
                   session_id_event, request_counter, pending_requests, linesRead, sidSeen,
                   calls, posted, late, loopVars>>

\* mcp_sse_client.py:60-75: __aexit__ cancels the reader, closes the stream
\* and the HTTP client
Exit ==
    /\ open_state = "ready"
    /\ open_state' = "closed"
    /\ sse_task' = IF sse_task = "running" THEN "cancelled" ELSE sse_task
    /\ sse_stream' = "closed"
    /\ http_session' = "closed"
    /\ UNCHANGED <<current_event, session_id, session_id_event, request_counter,
                   pending_requests, linesRead, sidSeen, openToken, calls, posted, late, loopVars>>

\* ------------------------------------------- requests and notifications

\* the id member a caller's message may already carry (0: it has none)
OwnIds == {0, 2}

\* one send_message / send_notification call.  own: the id the message came
\* with; rid: the request_id assigned to the call (0: none); pid: the id of
\* the message as posted (0: none); pc: "posting" (in the POST), "awaiting"
\* (in the wait for the future) or "done"; outcome: how the call ended;
\* gotId, gotErr: the response it returned; st, rd: open_state and sse_stream
\* when the call was made; msgId: the id member of the caller's message
\* object once the call has run (0: it has none).
NewCall(kind, method, own) ==
    [kind |-> kind, method |-> method, own |-> own, rid |-> 0, pid |-> 0, pc |-> "done",
     outcome |-> "usage_error", gotId |-> 0, gotErr |-> FALSE, st |-> open_state,
     rd |-> sse_stream, msgId |-> own]

\* (variant used to test the claims: the two checks are left out)
HasSessionUnchecked == http_session # "closed"
\* mcp_sse_client.py:183-187 and 216-220: neither check raises
HasSession == http_session # "none" /\ session_id # <<>>

\* (variant used to test the claims: the counter is not advanced)
SameRequestId(counter) == 1
\* mcp_sse_client.py:222-223
NextRequestId(counter) == counter + 1

\* mcp_sse_client.py:231-232: the id of the message that is posted
PostedId(own, request_id) == IF own = 0 THEN request_id ELSE own

\* (variant used to test the claims: no slot is stored before the POST)
RegisterNothing(table, k) == table
\* mcp_sse_client.py:227
Register(table, k) ==
    [i \in DOMAIN table \cup {k} |-> IF i = k THEN NewFuture ELSE table[i]]

\* (variant used to test the claims: the entry is left in the table)
KeepEntry(table, k) == table
\* (variant used to test the claims: the table is cleared)
PopEveryEntry(table, k) == [i \in {} |-> NewFuture]
\* mcp_sse_client.py:254: self._pending_requests.pop(request_id, None)
Pop(table, k) == [i \in DOMAIN table \ {k} |-> table[i]]

\* mcp_sse_client.py:206-243: send_message up to its first suspension.  On a
\* closed httpx.AsyncClient, post raises RuntimeError before anything is sent
\* and the finally clause removes the slot again.
SendMessage(method, own) ==
    /\ LET request_id == NextRequestId(request_counter)
           c == NewCall("message", method, own)
       IN  IF ~HasSession
           THEN /\ calls' = Append(calls, c)
                /\ UNCHANGED <<request_counter, pending_requests, posted>>
           ELSE IF http_session = "closed"
           THEN /\ request_counter' = request_id
                /\ pending_requests' = Pop(Register(pending_requests, request_id), request_id)
                /\ calls' = Append(calls, [c EXCEPT !.rid = request_id,
                                                    !.msgId = PostedId(own, request_id),
                                                    !.outcome = "post_error"])
                /\ UNCHANGED posted
           ELSE /\ request_counter' = request_id
                /\ pending_requests' = Register(pending_requests, request_id)
                /\ posted' = Append(posted, [kind |-> "request", method |-> method,
                                             id |-> PostedId(own, request_id)])
                /\ calls' = Append(calls, [c EXCEPT !.rid = request_id,
                                                    !.pid = PostedId(own, request_id),
                                                    !.msgId = PostedId(own, request_id),
                                                    !.pc = "posting", !.outcome = "none"])
    /\ UNCHANGED <<open_state, http_session, sse_stream, sse_task, current_event, session_id,
                   session_id_event, linesRead, sidSeen, openToken, late, loopVars>>

\* (variant used to test the claims: the message is posted as it came)
NotificationKeepsId(own) == own
\* mcp_sse_client.py:190: the id of the copy that is posted (0: none)
NotificationId(own) == 0

\* mcp_sse_client.py:176-202: send_notification up to its suspension in the
\* POST; a copy of the message without its id member is posted
SendNotification(method, own) ==
    /\ LET c == NewCall("notification", method, own)
       IN  IF ~HasSession
           THEN /\ calls' = Append(calls, c)
                /\ UNCHANGED posted
           ELSE IF http_session = "closed"
           THEN /\ calls' = Append(calls, [c EXCEPT !.outcome = "post_error"])
                /\ UNCHANGED posted
           ELSE /\ posted' = Append(posted, [kind |-> "notification", method |-> method,
                                             id |-> NotificationId(own)])
                /\ calls' = Append(calls, [c EXCEPT !.pc = "posting", !.outcome = "none"])
    /\ UNCHANGED <<open_state, http_session, sse_stream, sse_task, current_event, session_id,
                   session_id_event, request_counter, pending_requests, linesRead, sidSeen,
                   openToken, late, loopVars>>

\* mcp_sse_client.py:198-204 and 238-244, 252-254: the POST returns; ok: with
\* a success status.  A send_message goes on to wait for its future; on a
\* failure the exception leaves the call through the finally clause.
PostReturns(c, ok) ==
    /\ c \in 1..Len(calls)
    /\ calls[c].pc = "posting"
    /\ IF calls[c].kind = "notification"
       THEN /\ calls' = [calls EXCEPT ![c].pc = "done",
                                      ![c].outcome = IF ok THEN "sent" ELSE "post_error"]
            /\ UNCHANGED pending_requests
       ELSE IF ok
       THEN /\ calls' = [calls EXCEPT ![c].pc = "awaiting"]
            /\ UNCHANGED pending_requests
       ELSE /\ calls' = [calls EXCEPT ![c].pc = "done", ![c].outcome = "post_error"]
            /\ pending_requests' = Pop(pending_requests, calls[c].rid)
    /\ UNCHANGED <<open_state, http_session, sse_stream, sse_task, current_event, session_id,
                   session_id_event, request_counter, linesRead, sidSeen, openToken, posted,
                   late, loopVars>>

\* the future the call c waits for is in the given state
FutureIs(c, state) ==
    /\ c \in 1..Len(calls)
    /\ calls[c].pc = "awaiting"
    /\ calls[c].rid \in DOMAIN pending_requests
    /\ pending_requests[calls[c].rid].state = state

\* mcp_sse_client.py:247-248, 252-254: the future holds a result; send_message
\* returns it
AwaitReturns(c) ==
    /\ FutureIs(c, "result")
    /\ calls' = [calls EXCEPT ![c].pc = "done", ![c].outcome = "result",
                              ![c].gotId = pending_requests[calls[c].rid].id,
                              ![c].gotErr = pending_requests[calls[c].rid].err]
    /\ pending_requests' = Pop(pending_requests, calls[c].rid)
    /\ UNCHANGED <<open_state, http_session, sse_stream, sse_task, current_event, session_id,
                   session_id_event, request_counter, linesRead, sidSeen, openToken, posted,
                   late, loopVars>>

\* mcp_sse_client.py:247, 252-254: the future holds the exception of the
\* stream; it leaves send_message
AwaitRaises(c) ==
    /\ FutureIs(c, "error")
    /\ calls' = [calls EXCEPT ![c].pc = "done", ![c].outcome = "stream_error"]
    /\ pending_requests' = Pop(pending_requests, calls[c].rid)
    /\ UNCHANGED <<open_state, http_session, sse_stream, sse_task, current_event, session_id,
                   session_id_event, request_counter, linesRead, sidSeen, openToken, posted,
                   late, loopVars>>

\* mcp_sse_client.py:247, 250-254: the 30 seconds pass with the future not
\* done; TimeoutError leaves send_message
AwaitTimesOut(c) ==
    /\ FutureIs(c, "pending")
    /\ calls' = [calls EXCEPT ![c].pc = "done", ![c].outcome = "timeout"]
    /\ pending_requests' = Pop(pending_requests, calls[c].rid)
    /\ UNCHANGED <<open_state, http_session, sse_stream, sse_task, current_event, session_id,
                   session_id_event, request_counter, linesRead, sidSeen, openToken, posted,
                   late, loopVars>>

\* ------------------------------------ one stream-backend connection

\* the request MultiMCP makes once the handshake is done: tools/list in
\* _initialize_sse_server, tools/call in _call_tool_sse
ToolsMethods == {"tools/list", "tools/call"}

\* (variant used to test the claims: the error member is not looked at)
InitNeverFails(init_response) == FALSE
\* session.py:143 and 241: "error" in init_response
InitFailed(init_response) == init_response.gotErr

\* session.py:125-142 and 225-240: the client is open; the initialize request
\* is sent
ConnInitialize ==
    /\ conn_pc = "start"
    /\ open_state = "ready"
    /\ SendMessage("initialize", 0)
    /\ conn_pc' = "initialize"

\* session.py:143-156 and 241-250: the initialize response holds no error; the
\* initialized notification is sent
ConnNotify ==
    /\ conn_pc = "initialize"
    /\ calls[1].pc = "done"
    /\ calls[1].outcome = "result"
    /\ ~InitFailed(calls[1])
    /\ SendNotification("notifications/initialized", 0)
    /\ conn_pc' = "initialized"

\* session.py:158-166 and 252-263: the notification is posted; the tools
\* request is sent
ConnRequest(method) ==
    /\ conn_pc = "initialized"
    /\ calls[2].pc = "done"
    /\ calls[2].outcome = "sent"
    /\ SendMessage(method, 0)
    /\ conn_pc' = "request"

\* the last call made on the connection has ended
LastCallDone == calls # <<>> /\ calls[Len(calls)].pc = "done"

\* session.py:125 and 225: the `async with` block is left, by an exception of
\* send_message or send_notification, by the RuntimeError of session.py:146
\* and 242, or after the response to the tools request
ConnLeave ==
    /\ conn_pc \in {"initialize", "initialized", "request"}
    /\ LastCallDone
    /\ \/ conn_pc = "request"
       \/ conn_pc = "initialized" /\ calls[2].outcome # "sent"
       \/ conn_pc = "initialize" /\ (calls[1].outcome # "result" \/ InitFailed(calls[1]))
    /\ Exit
    /\ conn_pc' = "left"

\* ------------------------------------------------------ the tool registry

MaxBackends == 2
MaxToolCalls == 2

\* the transport member of a backend's configuration ("none": it has none)
Transports == {"sse", "stdio", "none"}

\* the tool names backends expose, and the names call_tool is called with
ExposedNames == {"add", "search"}
CalledNames == ExposedNames \cup {"ghost"}

\* how the enumeration of one backend goes: "unavailable" (the stream client
\* could not be imported), "connect_error", "handshake_error" (the initialize
\* request is answered with an error), "timeout", "list_error" (tools/list is
\* answered with an error), "no_tools" (the answer holds no tools member), "ok"
EnumOutcomes ==
    {"unavailable", "connect_error", "handshake_error", "timeout", "list_error",
     "no_tools", "ok"}

\* session.py:67-69: MultiMCP.__init__
RegistryInit ==
    /\ server_configs \in UNION {[1..n -> Transports] : n \in 1..MaxBackends}
    /\ tool_map = [name \in CalledNames |-> 0]
    /\ reg_pc = "initializing"
    /\ reg_i = 0
    /\ enumerated = <<>>
    /\ opened = <<>>
    /\ tool_calls = <<>>

\* no MultiMCP is in use
NoRegistry ==
    /\ server_configs = <<>>
    /\ tool_map = [name \in CalledNames |-> 0]
    /\ reg_pc = "initializing"
    /\ reg_i = 0
    /\ enumerated = <<>>
    /\ opened = <<>>
    /\ tool_calls = <<>>

\* session.py:75-81 and 198-203: config.get("transport", "stdio") == "sse"
TransportOf(config) == IF config = "sse" THEN "sse" ELSE "stdio"

\* session.py:117-118: the stream client is asked for although its import failed
Unavailable(config, how) == TransportOf(config) = "sse" /\ how = "unavailable"

\* Does the enumeration end with an exception?  _initialize_sse_server
\* (session.py:115-190) re-raises whatever happens inside it and raises itself
\* at lines 118, 146, 171 and 185; _initialize_stdio_server (session.py:90-113)
\* swallows what happens inside the session (line 112) and lets through only
\* what stdio_client raises.
EnumerationRaises(config, how) ==
    IF TransportOf(config) = "sse"
    THEN how # "ok"
    ELSE how = "connect_error"

\* (variant used to test the claims: a name that has an entry keeps it)
RegisterNewTools(map, tools, i) ==
    [name \in DOMAIN map |-> IF name \in tools /\ map[name] = 0 THEN i ELSE map[name]]
\* session.py:107-111 and 177-181: self.tool_map[name] = {"config": config, ...}
\* for every tool of the list
RegisterTools(map, tools, i) ==
    [name \in DOMAIN map |-> IF name \in tools THEN i ELSE map[name]]

\* (variant used to test the claims: the handler raises again)
HandlerReraises(raised) == raised
\* session.py:83-88: the handler of initialize prints and goes on
InitializeReraises(raised) == FALSE

\* session.py:73-88: one iteration of the loop of initialize, the whole
\* enumeration of the backend included
InitializeServer(how, tools) ==
    /\ reg_pc = "initializing"
    /\ reg_i < Len(server_configs)
    /\ how # "ok" => tools = {}
    /\ LET i == reg_i + 1
           config == server_configs[i]
       IN  /\ how = "unavailable" => TransportOf(config) = "sse"
           /\ reg_i' = i
           /\ enumerated' = Append(enumerated, [outcome |-> how, tools |-> tools])
           /\ opened' = IF Unavailable(config, how)
                        THEN opened
                        ELSE Append(opened, [backend |-> i, transport |-> TransportOf(config),
                                             by |-> "initialize"])
           /\ tool_map' = IF how = "ok" THEN RegisterTools(tool_map, tools, i) ELSE tool_map
           /\ reg_pc' = IF InitializeReraises(EnumerationRaises(config, how))
                        THEN "raised"
                        ELSE "initializing"
    /\ UNCHANGED <<server_configs, tool_calls, loopVars, clientVars, parserVars, webhookVars>>

\* session.py:73: the loop of initialize is over
InitializeReturns ==
    /\ reg_pc = "initializing"
    /\ reg_i = Len(server_configs)
    /\ server_configs # <<>>
    /\ reg_pc' = "initialized"
    /\ UNCHANGED <<server_configs, tool_map, reg_i, enumerated, opened, tool_calls,
                   loopVars, clientVars, parserVars, webhookVars>>

\* (variant used to test the claims: a name without entry goes to the first
\* backend)
GetOrFirst(map, name) == IF map[name] = 0 THEN 1 ELSE map[name]
\* session.py:193: self.tool_map.get(tool_name)
Get(map, name) == map[name]

\* session.py:192-203: call_tool, the connection it makes included; result: how
\* the invocation on the backend ends
CallTool(name, result) ==
    /\ reg_pc = "initialized"
    /\ Len(tool_calls) < MaxToolCalls
    /\ LET entry == Get(tool_map, name)
       IN  IF entry = 0
           THEN /\ tool_calls' = Append(tool_calls, [name |-> name, outcome |-> "tool_not_found",
                                                     backend |-> 0, transport |-> "none",
                                                     conn |-> 0])
                /\ opened' = opened
           ELSE LET transport == TransportOf(server_configs[entry])
                IN  /\ tool_calls' = Append(tool_calls, [name |-> name, outcome |-> result,
                                                         backend |-> entry,
                                                         transport |-> transport,
                                                         conn |-> Len(opened) + 1])
                    /\ opened' = Append(opened, [backend |-> entry, transport |-> transport,
                                                 by |-> "call_tool"])
    /\ UNCHANGED <<server_configs, tool_map, reg_pc, reg_i, enumerated, loopVars, clientVars,
                   parserVars, webhookVars>>

\* ------------------------------------------------- parse_function_call

\* A text given to parse_function_call is a sequence of symbols: the prefix
\* FC, words (taken whole, except where a slice cuts one: then its characters),
\* and single characters.  No text holds a backslash, a parenthesis or a sign,
\* and no word is a string prefix (b, f, r, u) or a keyword.
Digits == {"5", "7"}
Words == {"add", "x", "y", "input", "data", "_json", "True", "true"} \cup Digits
QuoteChars == {"\"", "'"}

\* the characters of a symbol
Chars(tok) ==
    CASE tok = "add" -> <<"a", "d", "d">>
      [] tok = "input" -> <<"i", "n", "p", "u", "t">>
      [] tok = "data" -> <<"d", "a", "t", "a">>
      [] tok = "_json" -> <<"_", "j", "s", "o", "n">>
      [] tok = "True" -> <<"T", "r", "u", "e">>
      [] tok = "true" -> <<"t", "r", "u", "e">>
      [] tok = FC -> <<"F", "U", "N", "C", "T", "I", "O", "N", "_", "C", "A", "L", "L", ":">>
      [] OTHER -> <<tok>>

\* the characters words are made of
Letters == UNION {{Chars(w)[i] : i \in 1..Len(Chars(w))} : w \in Words} \cup
           {"F", "U", "N", "C", "T", "I", "O", "_", "A", "L"}

\* \w
IsWord(tok) == tok \in Words \cup Letters

\* len(text)
RECURSIVE CharLen(_)
CharLen(t) == IF t = <<>> THEN 0 ELSE Len(Chars(Head(t))) + CharLen(Tail(t))

\* text[n:]
RECURSIVE DropChars(_, _)
DropChars(t, n) ==
    IF n = 0 \/ t = <<>> THEN t
    ELSE LET cs == Chars(Head(t))
         IN  IF n >= Len(cs) THEN DropChars(Tail(t), n - Len(cs))
             ELSE SubSeq(cs, n + 1, Len(cs)) \o Tail(t)

\* text.find(tok) + 1
IndexOf(t, tok) ==
    IF Contains(t, tok)
    THEN CHOOSE k \in 1..Len(t) : t[k] = tok /\ \A j \in 1..(k - 1) : t[j] # tok
    ELSE 0

\* text.split(tok, 1)[0]
Before(t, tok) == IF Contains(t, tok) THEN SubSeq(t, 1, IndexOf(t, tok) - 1) ELSE t

\* text.split(tok, 1)[1]
After(t, tok) == SubSeq(t, IndexOf(t, tok) + 1, Len(t))

\* text.split(tok)
RECURSIVE SplitOn(_, _)
SplitOn(t, tok) ==
    IF Contains(t, tok) THEN <<Before(t, tok)>> \o SplitOn(After(t, tok), tok) ELSE <<t>>

\* text.lstrip(tok)
RECURSIVE LStripChar(_, _)
LStripChar(t, tok) == IF t # <<>> /\ Head(t) = tok THEN LStripChar(Tail(t), tok) ELSE t

\* text.strip(tok)
RECURSIVE StripChar(_, _)
StripChar(t, tok) ==
    LET l == LStripChar(t, tok)
    IN  IF l # <<>> /\ l[Len(l)] = tok THEN StripChar(SubSeq(l, 1, Len(l) - 1), tok) ELSE l

\* the number of word symbols the text begins with
RECURSIVE WordRun(_)
WordRun(t) == IF t # <<>> /\ IsWord(Head(t)) THEN 1 + WordRun(Tail(t)) ELSE 0

\* action.py:43: re.match(r'^(\w+)\|', raw)
ToolNameMatch(raw) ==
    /\ WordRun(raw) >= 1
    /\ Len(raw) > WordRun(raw)
    /\ raw[WordRun(raw) + 1] = "|"

\* action.py:36-52: the prefix check and the tool name.  how: "raise" (line
\* 38), "return" (line 47) or "params"
HeadOf(resp) ==
    IF ~StartsWith(resp, FC)
    THEN [how |-> "raise", tool_name |-> <<>>, param_str |-> <<>>]
    ELSE LET raw == Tail(resp)
         IN  IF ToolNameMatch(raw)
             THEN [how |-> "params", tool_name |-> SubSeq(raw, 1, WordRun(raw)),
                   param_str |-> SubSeq(raw, WordRun(raw) + 2, Len(raw))]
             ELSE IF ~Contains(raw, "|") /\ ~Contains(raw, "=")
             THEN [how |-> "return", tool_name |-> Strip(raw), param_str |-> <<>>]
             ELSE LET name == Strip(Before(raw, "|"))
                  IN  [how |-> "params", tool_name |-> name,
                       param_str |-> LStripChar(DropChars(raw, CharLen(name)), "|")]

\* action.py:58-63: the state of the scan
ScanStart ==
    [in_quotes |-> FALSE, quote_char |-> "none", bracket_depth |-> 0, brace_depth |-> 0,
     current_part |-> <<>>, param_parts |-> <<>>]

\* action.py:90-92 and 97-98
AddPart(st) ==
    [st EXCEPT !.param_parts = IF Strip(st.current_part) # <<>>
                               THEN Append(@, Strip(st.current_part))
                               ELSE @,
               !.current_part = <<>>]

\* action.py:67-94: one character; prev: the character before it ("": none)
ScanChar(st, char, prev) ==
    IF char \in QuoteChars /\ prev # "\\"
    THEN [(IF ~st.in_quotes
           THEN [st EXCEPT !.in_quotes = TRUE, !.quote_char = char]
           ELSE IF char = st.quote_char
           THEN [st EXCEPT !.in_quotes = FALSE, !.quote_char = "none"]
           ELSE st) EXCEPT !.current_part = Append(@, char)]
    ELSE IF char = "[" /\ ~st.in_quotes
    THEN [st EXCEPT !.bracket_depth = @ + 1, !.current_part = Append(@, char)]
    ELSE IF char = "]" /\ ~st.in_quotes
    THEN [st EXCEPT !.bracket_depth = @ - 1, !.current_part = Append(@, char)]
    ELSE IF char = "{" /\ ~st.in_quotes
    THEN [st EXCEPT !.brace_depth = @ + 1, !.current_part = Append(@, char)]
    ELSE IF char = "}" /\ ~st.in_quotes
    THEN [st EXCEPT !.brace_depth = @ - 1, !.current_part = Append(@, char)]
    ELSE IF char = "|" /\ ~st.in_quotes /\ st.bracket_depth = 0 /\ st.brace_depth = 0
    THEN AddPart(st)
    ELSE [st EXCEPT !.current_part = Append(@, char)]

\* action.py:65-95: the loop over the characters of param_str, from the i-th
RECURSIVE ScanFrom(_, _, _)
ScanFrom(param_str, i, st) ==
    IF i > Len(param_str) THEN st
    ELSE ScanFrom(param_str, i + 1,
                  ScanChar(st, param_str[i], IF i = 1 THEN "" ELSE param_str[i - 1]))

\* action.py:58-98: param_parts
ScanParams(param_str) == AddPart(ScanFrom(param_str, 1, ScanStart)).param_parts

\* A decoded value is a record [t, v]: t is "int" (v: the number), "float"
\* (v: the whole part and the digits of the fraction), "bool", "str" (v: the
\* symbols of the string), "list", "tuple", "set" (v: the elements), "dict"
\* (v: the items in insertion order, each [key, value]), "ellipsis" (the
\* value of three dots); "name" marks an identifier in the syntax tree of a
\* Python expression.
NoNode == [t |-> "none", v |-> <<>>]
Failed == [ok |-> FALSE, node |-> NoNode, next |-> 0]
Parsed(node, next) == [ok |-> TRUE, node |-> node, next |-> next]

\* the first position from i on that holds no blank
RECURSIVE SkipWs(_, _)
SkipWs(t, i) == IF i <= Len(t) /\ t[i] = WS THEN SkipWs(t, i + 1) ELSE i

\* the first position from i on that holds tok (0: none)
FindTok(t, i, tok) ==
    IF \E k \in i..Len(t) : t[k] = tok
    THEN CHOOSE k \in i..Len(t) : t[k] = tok /\ \A j \in i..(k - 1) : t[j] # tok
    ELSE 0

\* the first position from i on where three tok begin (0: none)
FindTriple(t, i, tok) ==
    IF \E k \in i..(Len(t) - 2) : t[k] = tok /\ t[k + 1] = tok /\ t[k + 2] = tok
    THEN CHOOSE k \in i..(Len(t) - 2) :
             /\ t[k] = tok /\ t[k + 1] = tok /\ t[k + 2] = tok
             /\ \A j \in i..(k - 1) : ~(t[j] = tok /\ t[j + 1] = tok /\ t[j + 2] = tok)
    ELSE 0

\* the number of digits the text has from position i on
RECURSIVE DigitRun(_, _)
DigitRun(t, i) == IF i <= Len(t) /\ t[i] \in Digits THEN 1 + DigitRun(t, i + 1) ELSE 0

\* the number of word symbols the text has from position i on
WordRunAt(t, i) == WordRun(SubSeq(t, i, Len(t)))

\* int(digits)
RECURSIVE Number(_)
Number(ds) ==
    IF ds = <<>> THEN 0
    ELSE 10 * Number(SubSeq(ds, 1, Len(ds) - 1)) + (IF ds[Len(ds)] = "5" THEN 5 ELSE 7)

IntNode(ds) == [t |-> "int", v |-> Number(ds)]
FloatNode(ds, fs) == [t |-> "float", v |-> [whole |-> Number(ds), frac |-> fs]]
StrNode(s) == [t |-> "str", v |-> s]

\* hash(value) is defined
Hashable(node) == node.t \notin {"list", "dict", "set"}

\* a == b for two hashable values (the texts hold no number equal to True)
SameKey(a, b) ==
    IF a.t = b.t THEN a.v = b.v
    ELSE IF a.t = "int" /\ b.t = "float" THEN b.v.frac = <<>> /\ b.v.whole = a.v
    ELSE IF a.t = "float" /\ b.t = "int" THEN a.v.frac = <<>> /\ a.v.whole = b.v
    ELSE FALSE

\* the position of the key among the items of a dict (0: it has none)
KeyIndex(items, k) ==
    IF \E i \in 1..Len(items) : SameKey(items[i].key, k)
    THEN CHOOSE i \in 1..Len(items) : SameKey(items[i].key, k)
    ELSE 0

\* d[k] = value
DictSet(items, k, value) ==
    IF KeyIndex(items, k) = 0
    THEN Append(items, [key |-> k, value |-> value])
    ELSE [items EXCEPT ![KeyIndex(items, k)].value = value]

\* s.add(element)
SetAdd(elems, e) ==
    IF \E i \in 1..Len(elems) : SameKey(elems[i], e) THEN elems ELSE Append(elems, e)

\* ---- the syntax of a Python literal (ast.parse in mode eval, as far as
\* ast.literal_eval accepts the tree)

\* a string literal at position i, with the literals that follow it
RECURSIVE PyString(_, _)
PyString(t, i) ==
    LET q == t[i]
        triple == i + 2 <= Len(t) /\ t[i + 1] = q /\ t[i + 2] = q
        e == IF triple THEN FindTriple(t, i + 3, q) ELSE FindTok(t, i + 1, q)
        s == IF triple THEN SubSeq(t, i + 3, e - 1) ELSE SubSeq(t, i + 1, e - 1)
        n == SkipWs(t, IF triple THEN e + 3 ELSE e + 1)
    IN  IF e = 0 THEN Failed
        ELSE IF n <= Len(t) /\ t[n] \in QuoteChars
        THEN LET more == PyString(t, n)
             IN  IF more.ok THEN Parsed(StrNode(s \o more.node.v), more.next) ELSE Failed
        ELSE Parsed(StrNode(s), n)

\* a number, a constant, an ellipsis or an identifier at position i
PyWord(t, i) ==
    LET n == WordRunAt(t, i)
        d == DigitRun(t, i)
        f == DigitRun(t, i + d + 1)
    IN  IF i + 2 <= Len(t) /\ t[i] = "." /\ t[i + 1] = "." /\ t[i + 2] = "."
        THEN Parsed([t |-> "ellipsis", v |-> <<>>], i + 3)
        ELSE IF t[i] = "."
        THEN IF f >= 1 /\ WordRunAt(t, i + 1) = f /\ ~(i + 1 + f <= Len(t) /\ t[i + 1 + f] = ".")
             THEN Parsed(FloatNode(<<>>, SubSeq(t, i + 1, i + f)), i + 1 + f)
             ELSE Failed
        ELSE IF d >= 1
        THEN IF n > d THEN Failed
             ELSE IF i + d <= Len(t) /\ t[i + d] = "."
             THEN IF WordRunAt(t, i + d + 1) = f
                        /\ ~(i + d + 1 + f <= Len(t) /\ t[i + d + 1 + f] = ".")
                  THEN Parsed(FloatNode(SubSeq(t, i, i + d - 1),
                                        SubSeq(t, i + d + 1, i + d + f)), i + d + 1 + f)
                  ELSE Failed
             ELSE Parsed(IntNode(SubSeq(t, i, i + d - 1)), i + d)
        ELSE IF n = 1 /\ t[i] = "True" THEN Parsed([t |-> "bool", v |-> TRUE], i + 1)
        ELSE Parsed([t |-> "name", v |-> SubSeq(t, i, i + n - 1)], i + n)

RECURSIVE PyValue(_, _)
RECURSIVE PyItems(_, _, _, _)
RECURSIVE PyDictItems(_, _, _)

\* an expression at position i (blanks before it skipped)
PyValue(t, i) ==
    LET j == SkipWs(t, i)
    IN  IF j > Len(t) THEN Failed
        ELSE IF t[j] = "["
        THEN LET r == PyItems(t, j + 1, "]", <<>>)
             IN  IF r.ok THEN Parsed([t |-> "list", v |-> r.node], r.next) ELSE Failed
        ELSE IF t[j] = "{"
        THEN LET k == SkipWs(t, j + 1)
                 first == PyValue(t, k)
                 c == SkipWs(t, first.next)
             IN  IF k <= Len(t) /\ t[k] = "}" THEN Parsed([t |-> "dict", v |-> <<>>], k + 1)
                 ELSE IF ~first.ok \/ c > Len(t) THEN Failed
                 ELSE IF t[c] = ":"
                 THEN LET r == PyDictItems(t, k, <<>>)
                      IN  IF r.ok THEN Parsed([t |-> "dict", v |-> r.node], r.next) ELSE Failed
                 ELSE LET r == PyItems(t, k, "}", <<>>)
                      IN  IF r.ok THEN Parsed([t |-> "set", v |-> r.node], r.next) ELSE Failed
        ELSE IF t[j] \in QuoteChars THEN PyString(t, j)
        ELSE IF IsWord(t[j]) \/ t[j] = "." THEN PyWord(t, j)
        ELSE Failed

\* the elements of a display from position i up to the closing symbol; a
\* comma may follow the last one
PyItems(t, i, close, acc) ==
    LET j == SkipWs(t, i)
        r == PyValue(t, j)
        k == SkipWs(t, r.next)
    IN  IF j > Len(t) THEN Failed
        ELSE IF t[j] = close THEN Parsed(acc, j + 1)
        ELSE IF ~r.ok \/ k > Len(t) THEN Failed
        ELSE IF t[k] = "," THEN PyItems(t, k + 1, close, Append(acc, r.node))
        ELSE IF t[k] = close THEN Parsed(Append(acc, r.node), k + 1)
        ELSE Failed

\* the key: value items of a dict display from position i up to "}"
PyDictItems(t, i, acc) ==
    LET j == SkipWs(t, i)
        k == PyValue(t, j)
        c == SkipWs(t, k.next)
        value == PyValue(t, c + 1)
        n == SkipWs(t, value.next)
    IN  IF j > Len(t) THEN Failed
        ELSE IF t[j] = "}" THEN Parsed(acc, j + 1)
        ELSE IF ~k.ok \/ c > Len(t) THEN Failed
        ELSE IF t[c] # ":" THEN Failed
        ELSE IF ~value.ok \/ n > Len(t) THEN Failed
        ELSE IF t[n] = ","
        THEN PyDictItems(t, n + 1, Append(acc, [key |-> k.node, value |-> value.node]))
        ELSE IF t[n] = "}"
        THEN Parsed(Append(acc, [key |-> k.node, value |-> value.node]), n + 1)
        ELSE Failed

\* the expressions of a tuple without parentheses, after its first comma
RECURSIVE PyTupleRest(_, _, _)
PyTupleRest(t, i, acc) ==
    LET j == SkipWs(t, i)
        r == PyValue(t, j)
        k == SkipWs(t, r.next)
    IN  IF j > Len(t) THEN Parsed(acc, j)
        ELSE IF ~r.ok THEN Failed
        ELSE IF k > Len(t) THEN Parsed(Append(acc, r.node), k)
        ELSE IF t[k] = "," THEN PyTupleRest(t, k + 1, Append(acc, r.node))
        ELSE Failed

\* the syntax tree of the whole text
PyParse(t) ==
    LET Tuple(rest) ==
            IF rest.ok THEN Parsed([t |-> "tuple", v |-> rest.node], rest.next) ELSE Failed
        Whole(r, k) ==
            IF ~r.ok THEN Failed
            ELSE IF k > Len(t) THEN r
            ELSE IF t[k] = "," THEN Tuple(PyTupleRest(t, k + 1, <<r.node>>))
            ELSE Failed
        First(r) == Whole(r, SkipWs(t, r.next))
    IN  First(PyValue(t, 1))

\* ---- ast.literal_eval's _convert: the value of a syntax tree, its parts
\* taken in order.  r: "ok", "fail" (ValueError) or "type" (TypeError)
Converted(node) == [r |-> "ok", node |-> node]
NotConverted(r) == [r |-> r, node |-> NoNode]

RECURSIVE Convert(_)
RECURSIVE ConvertElems(_, _, _)
RECURSIVE ConvertItems(_, _)

Convert(node) ==
    IF node.t = "name" THEN NotConverted("fail")
    ELSE IF node.t \in {"list", "tuple"}
    THEN LET r == ConvertElems(node.v, <<>>, FALSE)
         IN  IF r.r = "ok" THEN Converted([t |-> node.t, v |-> r.node]) ELSE r
    ELSE IF node.t = "set"
    THEN LET r == ConvertElems(node.v, <<>>, TRUE)
         IN  IF r.r = "ok" THEN Converted([t |-> "set", v |-> r.node]) ELSE r
    ELSE IF node.t = "dict"
    THEN LET r == ConvertItems(node.v, <<>>)
         IN  IF r.r = "ok" THEN Converted([t |-> "dict", v |-> r.node]) ELSE r
    ELSE Converted(node)

\* list(map(_convert, elts)), or set(map(_convert, elts)) when hashed
ConvertElems(elts, acc, hashed) ==
    IF elts = <<>> THEN Converted(acc)
    ELSE LET r == Convert(Head(elts))
         IN  IF r.r # "ok" THEN r
             ELSE IF hashed /\ ~Hashable(r.node) THEN NotConverted("type")
             ELSE ConvertElems(Tail(elts),
                               IF hashed THEN SetAdd(acc, r.node) ELSE Append(acc, r.node),
                               hashed)

\* dict(zip(map(_convert, keys), map(_convert, values)))
ConvertItems(items, acc) ==
    IF items = <<>> THEN Converted(acc)
    ELSE LET k == Convert(Head(items).key)
             value == Convert(Head(items).value)
         IN  IF k.r # "ok" THEN k
             ELSE IF value.r # "ok" THEN value
             ELSE IF ~Hashable(k.node) THEN NotConverted("type")
             ELSE ConvertItems(Tail(items), DictSet(acc, k.node, value.node))

\* ast.literal_eval(val): SyntaxError and ValueError are "fail"
LiteralEval(val) ==
    LET Value(tree) == IF tree.ok THEN Convert(tree.node) ELSE NotConverted("fail")
    IN  Value(PyParse(val))

\* ---- json.loads

\* a number or true at position i
JsWord(t, i) ==
    LET d == DigitRun(t, i)
        f == DigitRun(t, i + d + 1)
    IN  IF d >= 1
        THEN IF i + d <= Len(t) /\ t[i + d] = "." /\ f >= 1
             THEN Parsed(FloatNode(SubSeq(t, i, i + d - 1), SubSeq(t, i + d + 1, i + d + f)),
                         i + d + 1 + f)
             ELSE Parsed(IntNode(SubSeq(t, i, i + d - 1)), i + d)
        ELSE IF t[i] = "true" THEN Parsed([t |-> "bool", v |-> TRUE], i + 1)
        ELSE Failed

RECURSIVE JsValue(_, _)
RECURSIVE JsElems(_, _, _)
RECURSIVE JsMembers(_, _, _)

\* a value at position i
JsValue(t, i) ==
    IF i > Len(t) THEN Failed
    ELSE IF t[i] = "\""
    THEN LET e == FindTok(t, i + 1, "\"")
         IN  IF e = 0 THEN Failed ELSE Parsed(StrNode(SubSeq(t, i + 1, e - 1)), e + 1)
    ELSE IF t[i] = "["
    THEN LET j == SkipWs(t, i + 1)
             r == JsElems(t, j, <<>>)
         IN  IF j <= Len(t) /\ t[j] = "]" THEN Parsed([t |-> "list", v |-> <<>>], j + 1)
             ELSE IF r.ok THEN Parsed([t |-> "list", v |-> r.node], r.next)
             ELSE Failed
    ELSE IF t[i] = "{"
    THEN LET j == SkipWs(t, i + 1)
             r == JsMembers(t, j, <<>>)
         IN  IF j <= Len(t) /\ t[j] = "}" THEN Parsed([t |-> "dict", v |-> <<>>], j + 1)
             ELSE IF r.ok THEN Parsed([t |-> "dict", v |-> r.node], r.next)
             ELSE Failed
    ELSE JsWord(t, i)

\* the elements of an array from position i up to "]"
JsElems(t, i, acc) ==
    LET r == JsValue(t, i)
        k == SkipWs(t, r.next)
    IN  IF ~r.ok \/ k > Len(t) THEN Failed
        ELSE IF t[k] = "," THEN JsElems(t, SkipWs(t, k + 1), Append(acc, r.node))
        ELSE IF t[k] = "]" THEN Parsed(Append(acc, r.node), k + 1)
        ELSE Failed

\* the members of an object from position i up to "}"
JsMembers(t, i, acc) ==
    LET k == JsValue(t, i)
        c == SkipWs(t, k.next)
        value == JsValue(t, SkipWs(t, c + 1))
        n == SkipWs(t, value.next)
    IN  IF i > Len(t) THEN Failed
        ELSE IF t[i] # "\"" THEN Failed
        ELSE IF ~k.ok \/ c > Len(t) THEN Failed
        ELSE IF t[c] # ":" THEN Failed
        ELSE IF ~value.ok \/ n > Len(t) THEN Failed
        ELSE IF t[n] = ","
        THEN JsMembers(t, SkipWs(t, n + 1), DictSet(acc, k.node, value.node))
        ELSE IF t[n] = "}" THEN Parsed(DictSet(acc, k.node, value.node), n + 1)
        ELSE Failed

\* json.loads(val): JSONDecodeError is "fail"
JsonLoads(val) ==
    LET Whole(r) ==
            IF r.ok /\ SkipWs(val, r.next) > Len(val) THEN Converted(r.node)
            ELSE NotConverted("fail")
    IN  Whole(JsValue(val, SkipWs(val, 1)))

\* {}
EmptyDict == [t |-> "dict", v |-> <<>>]

\* parse_function_call is not in use
NoParse ==
    /\ response = <<>>
    /\ parse_pc = "start"
    /\ tool_name = <<>>
    /\ param_parts = <<>>
    /\ part_i = 0
    /\ args = EmptyDict
    /\ error = "none"

\* ---- the arguments

\* action.py:111: key.endswith("_json")
HasSuffix(k) == k # <<>> /\ k[Len(k)] = "_json"

\* action.py:114 and 119: key[:-5]
DropSuffix(k) == SubSeq(k, 1, Len(k) - 1)

\* action.py:132: val.strip().strip('"').strip("'")
Unquote(val) == StripChar(StripChar(Strip(val), "\""), "'")

\* action.py:110-132: the key and the value of one key=value part.  how: "ok",
\* or "raise" when ast.literal_eval raises what line 126 does not catch
DecodeParam(k, val) ==
    LET Loaded(js, py) ==
            IF HasSuffix(k)
            THEN IF js.r = "ok" THEN [how |-> "ok", key |-> DropSuffix(k), value |-> js.node]
                 ELSE IF py.r = "ok"
                 THEN [how |-> "ok", key |-> DropSuffix(k), value |-> py.node]
                 ELSE [how |-> "ok", key |-> k, value |-> StrNode(val)]
            ELSE IF py.r = "ok" THEN [how |-> "ok", key |-> k, value |-> py.node]
                 ELSE IF py.r = "type" THEN [how |-> "raise", key |-> k, value |-> NoNode]
                 ELSE IF js.r = "ok" THEN [how |-> "ok", key |-> k, value |-> js.node]
                 ELSE [how |-> "ok", key |-> k, value |-> StrNode(Unquote(val))]
    IN  Loaded(JsonLoads(val), LiteralEval(val))

\* (variant used to test the claims: the key is not split)
FlatKey(k) == <<k>>
\* action.py:135: key.split(".")
SplitKey(k) == SplitOn(k, ".")

\* d.get(k): the value under a string key of a dict ({}: it has none)
Child(node, k) ==
    IF KeyIndex(node.v, StrNode(k)) = 0 THEN EmptyDict
    ELSE node.v[KeyIndex(node.v, StrNode(k))].value

\* action.py:136-139: the value written under the keys, dicts made on the way
\* (setdefault); err: what is raised when a value on the way is no dict
RECURSIVE SetPath(_, _, _)
SetPath(node, ks, value) ==
    IF Len(ks) = 1
    THEN IF node.t = "dict"
         THEN [ok |-> TRUE, node |-> [node EXCEPT !.v = DictSet(@, StrNode(ks[1]), value)],
               err |-> "none"]
         ELSE [ok |-> FALSE, node |-> node, err |-> "TypeError"]
    ELSE IF node.t = "dict"
    THEN LET r == SetPath(Child(node, ks[1]), Tail(ks), value)
         IN  IF r.ok
             THEN [ok |-> TRUE, node |-> [node EXCEPT !.v = DictSet(@, StrNode(ks[1]), r.node)],
                   err |-> "none"]
             ELSE r
    ELSE [ok |-> FALSE, node |-> node, err |-> "AttributeError"]

\* action.py:101-139: one element of param_parts.  how: "skip" (line 103),
\* "set" or "raise"
ParamOf(a, part) ==
    IF ~Contains(part, "=")
    THEN [how |-> "skip", args |-> a, err |-> "none"]
    ELSE LET Written(w) ==
                 IF ~w.ok THEN [how |-> "raise", args |-> a, err |-> w.err]
                 ELSE [how |-> "set", args |-> w.node, err |-> "none"]
             Decoded(d) ==
                 IF d.how = "raise" THEN [how |-> "raise", args |-> a, err |-> "TypeError"]
                 ELSE Written(SetPath(a, SplitKey(d.key), d.value))
         IN  Decoded(DecodeParam(Strip(Before(part, "=")), Strip(After(part, "="))))

\* ---- the calls

MaxArgs == 2

\* what stands before the first "|" of a call
Heads ==
    {<<FC, WS, "add">>, <<FC, "add">>, <<FC, WS>>, <<FC>>, <<"add">>, <<WS, FC, WS, "add">>}

\* what stands between two "|"
Segments ==
    {<<"x", "=", "5">>,
     <<"y", "=", "7">>,
     <<"x", "=", "True">>,
     <<"x", "=", "true">>,
     <<"x", "=", "y">>,
     <<"x", "=", "\"", "y", "\"">>,
     <<"x", "=", "\"", "y", "|", "5", "\"">>,
     <<"x", "=", "'", "y">>,
     <<"x", "=", "[", "5", ",", "7", "]">>,
     <<"x", "=", "[", "5", "|", "7", "]">>,
     <<"x", "=", "]">>,
     <<"x", "=", "{", "\"", "y", "\"", ":", "\"", "5", "|", "7", "\"", "}">>,
     <<"x", "=", "{", "[", "5", "]", ":", "7", "}">>,
     <<"x", WS, "=", WS, "5", ",", "7">>,
     <<"x">>,
     <<>>,
     <<"data", "_json", "=", "[", "[", "\"", "x", "\"", ",", "\"", "y", "\"", "]", "]">>,
     <<"data", "_json", "=", "[", "'", "x", "'", "]">>,
     <<"data", "_json", "=", "y">>,
     <<"input", ".", "x", "=", "5">>,
     <<"input", ".", "y", "=", "7">>,
     <<"input", "=", "5">>,
     <<"input", ".", "data", "_json", "=", "[", "5", "]">>}

\* the segments, a "|" before each
RECURSIVE JoinSegments(_)
JoinSegments(segs) ==
    IF segs = <<>> THEN <<>> ELSE <<"|">> \o Head(segs) \o JoinSegments(Tail(segs))

\* the texts parse_function_call is called with
ParseInputs ==
    {h \o JoinSegments(segs) :
        h \in Heads, segs \in UNION {[1..n -> Segments] : n \in 0..MaxArgs}}

\* parse_function_call is called
ParseInit ==
    /\ response \in ParseInputs
    /\ parse_pc = "start"
    /\ tool_name = <<>>
    /\ param_parts = <<>>
    /\ part_i = 0
    /\ args = EmptyDict
    /\ error = "none"

\* action.py:36-98: the prefix, the tool name and the scan of the parameters
ParseHead ==
    /\ parse_pc = "start"
    /\ \E h \in {HeadOf(response)} :
           /\ parse_pc' = (IF h.how = "raise" THEN "raised"
                           ELSE IF h.how = "return" THEN "returned"
                           ELSE "params")
           /\ error' = (IF h.how = "raise" THEN "ValueError" ELSE "none")
           /\ tool_name' = h.tool_name
           /\ param_parts' = ScanParams(h.param_str)
    /\ UNCHANGED <<response, part_i, args, loopVars, clientVars, registryVars, webhookVars>>

\* action.py:101-139: one iteration of the loop over param_parts
ParseParam ==
    /\ parse_pc = "params"
    /\ part_i < Len(param_parts)
    /\ \E p \in {ParamOf(args, param_parts[part_i + 1])} :
           /\ part_i' = part_i + 1
           /\ args' = p.args
           /\ error' = p.err
           /\ parse_pc' = (IF p.how = "raise" THEN "raised" ELSE "params")
    /\ UNCHANGED <<response, tool_name, param_parts, loopVars, clientVars, registryVars,
                   webhookVars>>

\* action.py:141-142
ParseReturn ==
    /\ parse_pc = "params"
    /\ part_i = Len(param_parts)
    /\ parse_pc' = "returned"
    /\ UNCHANGED <<response, tool_name, param_parts, part_i, args, error, loopVars,
                   clientVars, registryVars, webhookVars>>

\* ------------------------------------------- the webhook (telegram_webhook.py)

\* the number of deliveries the model follows
MaxDeliveries == 6

\* MAX_PROCESSED_UPDATES (telegram_webhook.py:42, 1000 there), scaled down
MaxProcessed == 3

\* the number of ids a clean-up removes (telegram_webhook.py:302, 100 there),
\* scaled down
EvictCount == 2

\* the update ids deliveries carry: more than the set may hold
UpdateIds == 1..(MaxProcessed + 2)

NoDelivery == [id |-> 0, readable |-> FALSE, status |-> 0, launched |-> FALSE,
               before |-> FALSE, retained |-> FALSE]

\* telegram_webhook.py:41 and the start of the service
WebhookInit ==
    /\ processed_updates = {}
    /\ deliveries = 0
    /\ received = {}
    /\ launches = [u \in UpdateIds |-> 0]
    /\ delivery = NoDelivery

\* the webhook is not in use
NoWebhook == WebhookInit

\* (variant used to test the claims: the id is not recorded)
AddNothing(updates, u) == updates
\* telegram_webhook.py:297: processed_updates.add(update_id)
Add(updates, u) == updates \cup {u}

\* telegram_webhook.py:302: sorted(processed_updates)[:100]
Oldest(updates) == {u \in updates : Cardinality({w \in updates : w < u}) < EvictCount}

\* telegram_webhook.py:300-303
CleanUp(updates) ==
    IF Cardinality(updates) > MaxProcessed THEN updates \ Oldest(updates) ELSE updates

\* telegram_webhook.py:282-317: one delivery with update id u; readable:
\* whether request.json() returns (it raises otherwise, line 314 catches)
telegram_webhook(u, readable) ==
    /\ deliveries < MaxDeliveries
    /\ deliveries' = deliveries + 1
    /\ IF ~readable
       THEN /\ delivery' = [NoDelivery EXCEPT !.status = 200]
            /\ UNCHANGED <<processed_updates, received, launches>>
       ELSE /\ received' = received \cup {u}
            /\ delivery' = [id |-> u, readable |-> TRUE, status |-> 200,
                            launched |-> u \notin processed_updates,
                            before |-> u \in received,
                            retained |-> u \in processed_updates]
            /\ IF u \in processed_updates
               THEN UNCHANGED <<processed_updates, launches>>
               ELSE /\ processed_updates' = CleanUp(Add(processed_updates, u))
                    /\ launches' = [launches EXCEPT ![u] = @ + 1]
    /\ UNCHANGED <<loopVars, clientVars, registryVars, parserVars>>

\* ---------------------------------------------------------- specifications

\* One run of AgentLoop.run; the registry and the parser are not in use
Init == LoopInit /\ SseInit /\ NoRegistry /\ NoParse /\ NoWebhook

Next ==
    \/ StepBegin /\ UNCHANGED <<clientVars, restVars>>
    \/ StepsExhausted /\ UNCHANGED <<clientVars, restVars>>
    \/ \E o \in PerceptionOutcomes : Perceive(o) /\ UNCHANGED <<clientVars, restVars>>
    \/ \E ok \in BOOLEAN : Retrieve(ok) /\ UNCHANGED <<clientVars, restVars>>
    \/ \E o \in PlanOutcomes : Plan(o) /\ UNCHANGED <<clientVars, restVars>>
    \/ \E r \in ToolResults, stored \in BOOLEAN : ToolReturns(r, stored) /\ UNCHANGED <<clientVars, restVars>>
    \/ \E e \in ToolErrors, stored \in BOOLEAN : ToolRaises(e, stored) /\ UNCHANGED <<clientVars, restVars>>
    \/ AfterLoop /\ UNCHANGED <<clientVars, restVars>>
    \/ CompAttempt /\ UNCHANGED <<clientVars, restVars>>
    \/ CompExhausted /\ UNCHANGED <<clientVars, restVars>>
    \/ \E r \in ToolResults : CompReturns(r) /\ UNCHANGED <<clientVars, restVars>>
    \/ \E e \in ToolErrors : CompRaises(e) /\ UNCHANGED <<clientVars, restVars>>

Spec == Init /\ [][Next]_vars

\* One MCPSseClient, from its construction to the end of its scope
SseNext ==
    \/ \E connected \in BOOLEAN : Enter(connected) /\ UNCHANGED <<conn_pc, restVars>>
    \/ \E line \in StreamLines : ReaderLine(line) /\ UNCHANGED <<conn_pc, restVars>>
    \/ StreamEnds /\ UNCHANGED <<conn_pc, restVars>>
    \/ StreamFails /\ UNCHANGED <<conn_pc, restVars>>
    \/ WaitReturns /\ UNCHANGED <<conn_pc, restVars>>
    \/ WaitTimesOut /\ UNCHANGED <<conn_pc, restVars>>
    \/ Exit /\ UNCHANGED <<conn_pc, restVars>>

SseSpec == Init /\ [][SseNext]_vars

\* the lines of a stream whose endpoint data carries a well-formed token
CallLines ==
    {line \in StreamLines : (line.kind = "data" /\ line.sid) => line.tok = <<"a", "-", "7">>}

\* One MCPSseClient with the send_message and send_notification calls its
\* holder makes on it, at any moment and concurrently with each other and
\* with the reader
CallNext ==
    \/ \E connected \in BOOLEAN : Enter(connected) /\ UNCHANGED <<conn_pc, restVars>>
    \/ \E line \in CallLines : ReaderLine(line) /\ UNCHANGED <<conn_pc, restVars>>
    \/ StreamEnds /\ UNCHANGED <<conn_pc, restVars>>
    \/ StreamFails /\ UNCHANGED <<conn_pc, restVars>>
    \/ WaitReturns /\ UNCHANGED <<conn_pc, restVars>>
    \/ WaitTimesOut /\ UNCHANGED <<conn_pc, restVars>>
    \/ Exit /\ UNCHANGED <<conn_pc, restVars>>
    \/ \E own \in OwnIds : Len(calls) < MaxCalls /\ SendMessage("any", own) /\ UNCHANGED <<conn_pc, restVars>>
    \/ \E own \in OwnIds :
          Len(calls) < MaxCalls /\ SendNotification("any", own) /\ UNCHANGED <<conn_pc, restVars>>
    \/ \E c \in 1..MaxCalls, ok \in BOOLEAN : PostReturns(c, ok) /\ UNCHANGED <<conn_pc, restVars>>
    \/ \E c \in 1..MaxCalls : AwaitReturns(c) /\ UNCHANGED <<conn_pc, restVars>>
    \/ \E c \in 1..MaxCalls : AwaitRaises(c) /\ UNCHANGED <<conn_pc, restVars>>
    \/ \E c \in 1..MaxCalls : AwaitTimesOut(c) /\ UNCHANGED <<conn_pc, restVars>>

CallSpec == Init /\ [][CallNext]_vars

\* One stream-backend connection of MultiMCP: _initialize_sse_server or
\* _call_tool_sse
ConnNext ==
    \/ \E connected \in BOOLEAN : Enter(connected) /\ UNCHANGED <<conn_pc, restVars>>
    \/ \E line \in StreamLines : ReaderLine(line) /\ UNCHANGED <<conn_pc, restVars>>
    \/ StreamEnds /\ UNCHANGED <<conn_pc, restVars>>
    \/ StreamFails /\ UNCHANGED <<conn_pc, restVars>>
    \/ WaitReturns /\ UNCHANGED <<conn_pc, restVars>>
    \/ WaitTimesOut /\ UNCHANGED <<conn_pc, restVars>>
    \/ ConnInitialize /\ UNCHANGED restVars
    \/ ConnNotify /\ UNCHANGED restVars
    \/ \E method \in ToolsMethods : ConnRequest(method) /\ UNCHANGED restVars
    \/ ConnLeave /\ UNCHANGED restVars
    \/ \E c \in 1..3, ok \in BOOLEAN : PostReturns(c, ok) /\ UNCHANGED <<conn_pc, restVars>>
    \/ \E c \in 1..3 : AwaitReturns(c) /\ UNCHANGED <<conn_pc, restVars>>
    \/ \E c \in 1..3 : AwaitRaises(c) /\ UNCHANGED <<conn_pc, restVars>>
    \/ \E c \in 1..3 : AwaitTimesOut(c) /\ UNCHANGED <<conn_pc, restVars>>

ConnSpec == Init /\ [][ConnNext]_vars

\* MultiMCP: initialize, then call_tool calls
RegistryStart == LoopInit /\ SseInit /\ RegistryInit /\ NoParse /\ NoWebhook

RegistryNext ==
    \/ \E how \in EnumOutcomes, tools \in SUBSET ExposedNames : InitializeServer(how, tools)
    \/ InitializeReturns
    \/ \E name \in CalledNames, result \in {"result", "error"} : CallTool(name, result)

RegistrySpec == RegistryStart /\ [][RegistryNext]_vars

\* One call of parse_function_call
\* The webhook over a sequence of deliveries
WebhookStart == LoopInit /\ SseInit /\ NoRegistry /\ NoParse /\ WebhookInit

WebhookNext == \E u \in UpdateIds, readable \in BOOLEAN : telegram_webhook(u, readable)

WebhookSpec == WebhookStart /\ [][WebhookNext]_vars

ParseStart == LoopInit /\ SseInit /\ NoRegistry /\ ParseInit /\ NoWebhook

ParseNext ==
    \/ ParseHead
    \/ ParseParam
    \/ ParseReturn

ParseSpec == ParseStart /\ [][ParseNext]_vars

\* ------------------------------------------------------------------ claims

AfterTheLoop == pc \in {"post", "comp", "comp_calling", "done"}

\* the delays slept by the compensation, in order
Delays == SelectSeq(compLog, LAMBDA x : x > 0)

\* the number of delivery calls the compensation made
Attempts == Len(SelectSeq(compLog, LAMBDA x : x = 0))

C2_StepsBoundedCallsSequential ==
    /\ \A i \in 1..Len(stepLog) : stepLog[i] = i - 1 /\ stepLog[i] < MaxSteps
    /\ stepLog # <<>> => step = stepLog[Len(stepLog)]
    /\ stepCalls <= 1
    /\ inflight <= 1
    /\ inflight = 1 <=> pc \in {"calling", "comp_calling"}

\* the last step of the budget with its tool call in flight
C2_Witness ==
    /\ Len(stepLog) = MaxSteps
    /\ stepCalls = 1
    /\ inflight = 1
    /\ pc = "calling"

\* C3: email_sent starts false, goes from false to true at most once and is
\* never set back to false by a main-loop step or a compensation attempt.
C3_EmailSentSetOnce ==
    /\ flips <= 1
    /\ email_sent <=> flips = 1

\* the flag is set and a later delivery call of the main loop has returned
C3_Witness ==
    /\ email_sent
    /\ Len(memory) >= 2
    /\ memory[1].tool_name \in EmailTools
    /\ memory[Len(memory)].tool_name \in EmailTools
    /\ memory[Len(memory)].type = "tool_output"

\* C4 as stated: a perception text that starts with FINAL_ANSWER: is recorded
\* unchanged as the final answer and ends the loop in its step.
C4_Original ==
    (event.kind = "perception" /\ StartsWith(event.text, FA)) =>
        /\ final_answer = event.text
        /\ AfterTheLoop
        /\ phases = {"perceive"}

\* C4 as amended: a perception text that starts with FINAL_ANSWER: is
\* recorded, with its surrounding whitespace removed, as the final answer and
\* ends the loop in its step: no retrieval, planning or tool call in that
\* step, and no later step.
C4_PerceptionFinalEndsLoop ==
    (event.kind = "perception" /\ StartsWith(event.text, FA)) =>
        /\ final_answer = Strip(event.text)
        /\ AfterTheLoop
        /\ phases = {"perceive"}
        /\ stepCalls = 0
        /\ step = stepLog[Len(stepLog)]
        /\ nextStep = step + 1

\* the second step ended by a FINAL_ANSWER perception with trailing whitespace
C4_Witness ==
    /\ event.kind = "perception"
    /\ event.text = <<FA, "42", WS>>
    /\ step = 1
    /\ pc = "done"
    /\ outcome.value = <<FA, "42">>

\* C5: once the loop has ended, the compensation calls the delivery tool if
\* and only if a sheet was recorded as created and email_sent is still false.
C5_CompensationIffSheetUnsent ==
    /\ ~AfterTheLoop => compLog = <<>>
    /\ pc \in {"comp", "comp_calling"} => sheet_created /\ ~email_sent
    /\ compLog # <<>> => sheet_created
    /\ sheet_created => sheet_url # "none"
    /\ (pc = "done" /\ sheet_created /\ ~email_sent) => Attempts >= 1
    /\ (pc = "done" /\ compLog # <<>> /\ email_sent) => flips = 1 /\ Attempts >= 1
    /\ (pc = "comp" /\ attempt = 0) => ENABLED CompAttempt

\* the loop ended on an exception and the compensation made a delivery call
C5_Witness ==
    /\ pc = "done"
    /\ event.kind = "fault"
    /\ Attempts >= 1
    /\ email_sent

\* C6: a compensation whose attempts all fail makes exactly 3 attempts with
\* the delays 1, 2, 4 between them, does not raise and leaves email_sent false.
C6_ThreeAttemptsDelays124 ==
    (pc = "done" /\ compLog # <<>> /\ ~email_sent) =>
        /\ Attempts = 3
        /\ Delays = <<1, 2, 4>>
        /\ outcome.kind = "returned"

\* C7: when the main-loop call of a delivery tool raises, the loop does not
\* abort: one tool_error item is added, the next query mentions the failure
\* and the loop goes on, whatever the text of the error.
C7_DeliveryFailureContinues ==
    (event.kind = "tool_raise" /\ event.tool \in EmailTools) =>
        /\ pc = "loop"
        /\ query = "email_failure"
        /\ memory # <<>>
        /\ memory[Len(memory)].type = "tool_error"

\* C8: when the main-loop call of any other tool raises, the loop breaks in
\* that step, whatever the text of the error: no later step runs and the
\* final answer is the one it was before.
C8_OtherFailureBreaks ==
    (event.kind = "tool_raise" /\ event.tool \notin EmailTools) =>
        /\ ~(pc = "loop" /\ nextStep < MaxSteps)
        /\ final_answer = event.before

\* C9: when parse_function_call raises on the planner's line, the step makes
\* no tool call, the loop ends, and run returns the placeholder.
C9_ParseErrorEndsWithPlaceholder ==
    event.kind = "parse_raise" =>
        /\ AfterTheLoop
        /\ stepCalls = 0
        /\ "act" \notin phases
        /\ final_answer = NoAnswer
        /\ outcome.kind # "raised"
        /\ pc = "done" => outcome = [kind |-> "returned", value |-> Placeholder]

\* a run ended by a parser error in its second step
C9_Witness ==
    /\ event.kind = "parse_raise"
    /\ step = 1
    /\ pc = "done"
    /\ outcome.value = Placeholder


\* the tokens of sidSeen in which the pattern of mcp_sse_client.py:138 matches
Matching == SelectSeq(sidSeen, LAMBDA t : t # <<>> /\ InClass(Head(t)))

\* C10 as stated: when an endpoint event with session_id=<token> is delivered
\* within the wait, open completes holding exactly that token; when none is,
\* open fails with the timeout error and the client holds no token.
C10_Original ==
    /\ open_state = "ready" => \E i \in 1..Len(sidSeen) : openToken = sidSeen[i]
    /\ open_state = "failed_timeout" => sidSeen = <<>> /\ openToken = <<>>

\* C10 as amended: when an endpoint event whose data holds session_id=
\* followed by at least one character of [a-f0-9-] is delivered within the
\* wait, open completes holding the longest run of such characters that
\* follows session_id= in the latest such event (the whole token when it is
\* made of these characters only); when no such event is delivered within
\* the wait, open fails with the timeout error, the client holding no token.
C10_OpenHoldsExtractedToken ==
    /\ open_state # "failed_runtime"
    /\ open_state \in {"ready", "closed"} =>
          /\ Matching # <<>>
          /\ openToken = ExtractSessionId(Matching[Len(Matching)])
          /\ openToken # <<>>
    /\ open_state = "failed_timeout" => Matching = <<>> /\ openToken = <<>>
    /\ (open_state = "waiting" /\ Matching # <<>>) =>
          session_id_event /\ session_id = ExtractSessionId(Matching[Len(Matching)])

\* open completed on a token whose tail is outside the class, after an
\* endpoint event whose token did not match
C10_Witness ==
    /\ open_state = "ready"
    /\ sidSeen = <<<<"Z", "a">>, <<"a", "Z">>>>
    /\ openToken = <<"a">>

\* open timed out although an endpoint event with session_id= was delivered
C10_WitnessTimeout ==
    /\ open_state = "failed_timeout"
    /\ sidSeen # <<>>


\* the response the initialize request returned reports an error
InitErrorReceived ==
    calls # <<>> /\ calls[1].outcome = "result" /\ calls[1].gotErr

\* C11: on a stream-backend connection the messages are posted in the order
\* initialize request, initialized notification, tools/list or tools/call
\* request; the notification is posted only after the initialize request has
\* returned a response without an error; when that response reports an error
\* the connection is left with neither the notification nor the tools request
\* posted.
C11_HandshakeOrder ==
    /\ Len(posted) <= 3
    /\ Len(posted) >= 1 => posted[1].kind = "request" /\ posted[1].method = "initialize"
    /\ Len(posted) >= 2 =>
          /\ posted[2].kind = "notification"
          /\ posted[2].method = "notifications/initialized"
          /\ posted[2].id = 0
          /\ calls[1].outcome = "result"
          /\ ~calls[1].gotErr
    /\ Len(posted) = 3 =>
          /\ posted[3].kind = "request"
          /\ posted[3].method \in ToolsMethods
          /\ calls[2].outcome = "sent"
    /\ InitErrorReceived => Len(posted) = 1 /\ conn_pc \in {"initialize", "left"}

\* the whole handshake and the tools request were posted and answered
C11_Witness ==
    /\ Len(posted) = 3
    /\ posted[3].method = "tools/call"
    /\ calls[3].outcome = "result"
    /\ conn_pc = "left"

\* the initialize response reported an error and the connection was left
C11_WitnessInitError ==
    /\ InitErrorReceived
    /\ conn_pc = "left"
    /\ open_state = "closed"


\* a step in which a send_message or send_notification call is made
CallMade == Len(calls') = Len(calls) + 1

\* the client has no session: __aenter__ has not run, or it still waits for
\* the session token
NoSessionYet == open_state = "idle" \/ (open_state = "waiting" /\ ~session_id_event)

\* C12: a send_message or send_notification call made before the client has
\* a session (before open, or while open still waits for the session token)
\* raises the usage error, posts nothing and leaves the request counter and
\* the pending-request table as they were.
C12_NoSessionUsageError ==
    [][(CallMade /\ NoSessionYet) =>
          /\ calls'[Len(calls')].outcome = "usage_error"
          /\ calls'[Len(calls')].pc = "done"
          /\ posted' = posted
          /\ request_counter' = request_counter
          /\ pending_requests' = pending_requests]_vars

\* a send_message before open and a send_notification during the wait for the
\* token both raised the usage error
C12_Witness ==
    /\ Len(calls) = 2
    /\ calls[1].kind = "message" /\ calls[1].st = "idle"
    /\ calls[2].kind = "notification" /\ calls[2].st = "waiting"
    /\ ~session_id_event
    /\ calls[1].outcome = "usage_error" /\ calls[2].outcome = "usage_error"
    /\ posted = <<>>

\* C13: a send_message or send_notification call made once the client is
\* closed (its scope was left, or its reader stopped on a stream error) raises
\* the usage error, posts no message and registers no pending slot.
C13_ClosedRejectsCalls ==
    \A c \in 1..Len(calls) :
        (calls[c].st = "closed" \/ (calls[c].st = "ready" /\ calls[c].rd = "failed")) =>
            /\ calls[c].outcome = "usage_error"
            /\ calls[c].rid = 0
            /\ calls[c].pid = 0

\* C14: the key under which a send_message call registers its pending slot is
\* the id of the message it posts, whether the message came with an id or not.
C14_SlotKeyIsPostedId ==
    \A c \in 1..Len(calls) :
        (calls[c].kind = "message" /\ calls[c].pid # 0) => calls[c].rid = calls[c].pid


\* the step in which the send_message call c ends with the given outcome
Ends(c, how) == calls[c].outcome = "none" /\ calls'[c].outcome = how

\* the table is the given one without the entry of key k
Without(table, k, after) ==
    /\ DOMAIN after = DOMAIN table \ {k}
    /\ \A i \in DOMAIN after : after[i] = table[i]

\* the reader takes a response whose slot is done or gone
LateArrival == linesRead' = linesRead + 1 /\ late' # late

\* no request returned a response carrying the id of a request that timed out
NotMisdelivered ==
    \A c, d \in 1..Len(calls) :
        (c # d /\ calls[c].outcome = "timeout") => calls[d].gotId # calls[c].rid

\* C15: a send_message whose response does not arrive raises the timeout
\* error and removes its own pending slot, every other slot staying as it is;
\* a response with its id that arrives afterwards changes no slot and is
\* returned by no other request.
C15_TimeoutRemovesOwnSlotOnly ==
    [][/\ \A c \in 1..Len(calls) :
             Ends(c, "timeout") =>
                 /\ calls[c].rid \in DOMAIN pending_requests
                 /\ Without(pending_requests, calls[c].rid, pending_requests')
                 /\ calls'[c].pc = "done"
       /\ LateArrival => pending_requests' = pending_requests /\ calls' = calls
       /\ NotMisdelivered']_vars

\* the first request timed out, a response with its id arrived afterwards,
\* and the second request still waits on its slot
C15_Witness ==
    /\ Len(calls) = 2
    /\ calls[1].outcome = "timeout"
    /\ calls[1].rid \in late
    /\ calls[2].pc = "awaiting"
    /\ calls[2].rid \in DOMAIN pending_requests
    /\ pending_requests[calls[2].rid].state = "pending"

\* C16: when the reader's stream stops, by an error or by the server ending
\* it, no send_message made while the stream was open is left pending.
C16_StreamStopFailsPending ==
    sse_stream \in {"ended", "failed"} =>
        \A c \in 1..Len(calls) :
            (/\ calls[c].rd = "open"
             /\ calls[c].pc \in {"posting", "awaiting"}
             /\ calls[c].rid \in DOMAIN pending_requests)
                => pending_requests[calls[c].rid].state # "pending"

\* C17: a send_message call that returns a response returns one whose id is
\* the request id the call was assigned, whatever the order in which the
\* responses arrive.
C17_ReturnsOwnResponse ==
    \A c \in 1..Len(calls) :
        calls[c].outcome = "result" => calls[c].gotId = calls[c].rid /\ calls[c].rid # 0

\* the second request returned its response while the first one was still
\* waiting for its own
C17_Witness ==
    /\ Len(calls) = 2
    /\ calls[2].outcome = "result"
    /\ calls[2].gotId = 2
    /\ calls[1].pc = "awaiting"
    /\ calls[1].rid = 1
    /\ pending_requests[1].state = "pending"

\* C18: a pending slot that has been fulfilled or failed keeps its outcome for
\* as long as it is in the table, whatever arrives on the stream and however
\* the stream stops, and the reader goes on after a response to a done slot.
C18_SlotCompletedOnce ==
    [][/\ \A k \in DOMAIN pending_requests \cap DOMAIN pending_requests' :
             pending_requests[k].state # "pending" =>
                 pending_requests'[k] = pending_requests[k]
       /\ LateArrival => sse_task' = "running"]_vars

\* a slot holds a result, a second response with its id has arrived and the
\* stream has failed since
C18_Witness ==
    /\ 1 \in DOMAIN pending_requests
    /\ pending_requests[1].state = "result"
    /\ 1 \in late
    /\ sse_stream = "failed"

\* C19: the request ids send_message assigns increase strictly from call to
\* call, and the requests that are pending at one time have different keys.
C19_RequestIdsIncrease ==
    /\ \A c, d \in 1..Len(calls) :
          (c < d /\ calls[c].rid # 0 /\ calls[d].rid # 0) => calls[c].rid < calls[d].rid
    /\ \A c \in 1..Len(calls) : calls[c].rid <= request_counter

\* two requests are pending at the same time
C19_Witness ==
    /\ Len(calls) = 2
    /\ calls[1].pc # "done" /\ calls[2].pc # "done"
    /\ calls[1].kind = "message" /\ calls[2].kind = "message"
    /\ DOMAIN pending_requests = {1, 2}

\* the send_message calls in flight
InFlight == {c \in 1..Len(calls) : calls[c].kind = "message" /\ calls[c].pc # "done"}

\* C20: the table holds exactly the entries of the send_message calls in
\* flight: an entry is gone as soon as its call has ended, and the table is
\* empty when no call is in flight.
C20_TableHoldsCallsInFlight ==
    DOMAIN pending_requests = {calls[c].rid : c \in InFlight}

\* one request ended by a stream failure and one by a failed POST; the table
\* is empty
C20_Witness ==
    /\ Len(calls) = 2
    /\ calls[1].outcome = "stream_error"
    /\ calls[2].outcome = "post_error" /\ calls[2].pid # 0
    /\ DOMAIN pending_requests = {}


\* a step in which a send_notification call is made and goes on to post
NotifyAccepted ==
    /\ CallMade
    /\ calls'[Len(calls')].kind = "notification"
    /\ calls'[Len(calls')].pc = "posting"

\* no send_notification call has a request id or waits for a future
NotificationsNeverWait ==
    \A c \in 1..Len(calls) :
        calls[c].kind = "notification" =>
            calls[c].rid = 0 /\ calls[c].pc # "awaiting" /\ calls[c].msgId = calls[c].own

\* C21: send_notification posts the message without an id member, registers
\* no pending slot, leaves the request counter as it is, ends with the return
\* of the POST without waiting for anything on the stream, and leaves the
\* caller's message as it was.
C21_NotificationFrame ==
    [][/\ NotifyAccepted =>
             /\ posted' = Append(posted, [kind |-> "notification",
                                          method |-> calls'[Len(calls')].method, id |-> 0])
             /\ request_counter' = request_counter
             /\ pending_requests' = pending_requests
       /\ \A c \in 1..Len(calls) :
             (calls[c].kind = "notification" /\ calls[c].pc = "posting"
                 /\ calls'[c].pc # "posting") =>
                 /\ calls'[c].pc = "done"
                 /\ linesRead' = linesRead
                 /\ pending_requests' = pending_requests
                 /\ request_counter' = request_counter
       /\ NotificationsNeverWait']_vars

\* a notification whose message came with id 2 was posted without an id and
\* has returned, the message still holding its id
C21_Witness ==
    /\ calls # <<>>
    /\ calls[1].kind = "notification"
    /\ calls[1].own = 2
    /\ calls[1].outcome = "sent"
    /\ calls[1].msgId = 2
    /\ posted[1].id = 0
    /\ request_counter = 0


\* the backends enumerated so far that listed the name
Exposing(name) ==
    {i \in 1..Len(enumerated) : enumerated[i].outcome = "ok" /\ name \in enumerated[i].tools}

\* initialize has not raised and, once it has returned, every configured
\* backend was taken and the registry holds the names the successful ones listed
InitializeCompletes ==
    /\ reg_pc # "raised"
    /\ reg_pc = "initialized" =>
          /\ Len(enumerated) = Len(server_configs)
          /\ \A name \in CalledNames : tool_map[name] # 0 <=> Exposing(name) # {}

\* C22: MultiMCP.initialize never raises; a backend whose enumeration fails
\* registers nothing and is skipped, the backends after it are still
\* enumerated, and afterwards the registry holds the tools of every backend
\* that enumerated successfully.
C22_InitializeSkipsFailedBackends ==
    [][/\ (reg_i' = reg_i + 1 /\ enumerated'[reg_i'].outcome # "ok") =>
             /\ tool_map' = tool_map
             /\ reg_pc' = "initializing"
       /\ InitializeCompletes']_vars

\* the first backend timed out, the second one, a stream backend like the
\* first, was enumerated and its tool is registered
C22_Witness ==
    /\ reg_pc = "initialized"
    /\ server_configs = <<"sse", "sse">>
    /\ enumerated[1].outcome = "timeout"
    /\ enumerated[2].outcome = "ok"
    /\ tool_map["add"] = 2
    /\ tool_map["search"] = 0

\* the last backend in configuration order that listed the name (0: none)
LastExposing(name) ==
    IF Exposing(name) = {} THEN 0
    ELSE CHOOSE i \in Exposing(name) : \A j \in Exposing(name) : j <= i

\* C23: a registered name belongs to one backend, the last one in
\* configuration order among those that listed it, and call_tool opens its
\* connection to that backend with that backend's transport kind.
C23_LastBackendOwnsName ==
    /\ \A name \in CalledNames : tool_map[name] = LastExposing(name)
    /\ \A c \in 1..Len(tool_calls) :
          tool_calls[c].outcome # "tool_not_found" =>
              /\ tool_calls[c].backend = LastExposing(tool_calls[c].name)
              /\ tool_calls[c].transport =
                     (IF server_configs[tool_calls[c].backend] = "sse" THEN "sse" ELSE "stdio")
              /\ opened[tool_calls[c].conn] =
                     [backend |-> tool_calls[c].backend,
                      transport |-> tool_calls[c].transport, by |-> "call_tool"]

\* a process backend and then a stream backend listed "add"; the call of "add"
\* went to the stream backend
C23_Witness ==
    /\ server_configs = <<"stdio", "sse">>
    /\ Exposing("add") = {1, 2}
    /\ tool_calls # <<>>
    /\ tool_calls[1].name = "add"
    /\ tool_calls[1].backend = 2
    /\ tool_calls[1].transport = "sse"

\* a step in which call_tool is called with a name that has no entry
CallOfAbsentName ==
    /\ Len(tool_calls') = Len(tool_calls) + 1
    /\ tool_map[tool_calls'[Len(tool_calls')].name] = 0

\* C24: call_tool with a name that is not in the registry ends with the
\* tool-not-found error, opens no connection or subprocess and leaves the
\* registry as it is.
C24_AbsentNameNotFound ==
    [][CallOfAbsentName =>
          /\ tool_calls'[Len(tool_calls')].outcome = "tool_not_found"
          /\ tool_calls'[Len(tool_calls')].conn = 0
          /\ opened' = opened
          /\ tool_map' = tool_map]_vars

\* "add" was called while only "search" was registered
C24_Witness ==
    /\ tool_calls # <<>>
    /\ tool_calls[1].name = "add"
    /\ tool_calls[1].outcome = "tool_not_found"
    /\ tool_map["search"] # 0
    /\ Len(opened) = Len(server_configs)


\* the connection of a _call_tool_sse is over: __aenter__ has raised, or the
\* `async with` block has been left
ConnectionOver ==
    \/ conn_pc = "left"
    \/ open_state \in {"failed_connect", "failed_timeout", "failed_runtime"}

\* C25: a call_tool closes the connection it opened before it returns or
\* raises: once the call is over, the HTTP client and the event stream are
\* closed and the reader task no longer runs.
C25_ConnectionClosedAfterCall ==
    ConnectionOver =>
        /\ http_session = "closed"
        /\ sse_stream # "open"
        /\ sse_task # "running"


\* a step of the loop over param_parts that takes a key=value part
TakesParam ==
    /\ parse_pc = "params"
    /\ part_i' = part_i + 1
    /\ Contains(param_parts[part_i'], "=")

\* the key and the value text of the part the step takes
TakenKey == Strip(Before(param_parts[part_i'], "="))
TakenVal == Strip(After(param_parts[part_i'], "="))

\* the value at a path of string keys in a nested map (NoNode: there is none)
RECURSIVE Lookup(_, _)
Lookup(node, ks) ==
    IF ks = <<>> THEN node
    ELSE IF node.t # "dict" THEN NoNode
    ELSE IF KeyIndex(node.v, StrNode(Head(ks))) = 0 THEN NoNode
    ELSE Lookup(node.v[KeyIndex(node.v, StrNode(Head(ks)))].value, Tail(ks))

\* C26: an argument whose key ends in _json is returned under the key without
\* the suffix, never under the suffixed key, and its value is decoded, not the
\* text it was written with.
C26_JsonSuffixStripped ==
    [][(TakesParam /\ HasSuffix(TakenKey) /\ parse_pc' # "raised") =>
          /\ Lookup(args', SplitOn(DropSuffix(TakenKey), ".")).t # "none"
          /\ Lookup(args', SplitOn(DropSuffix(TakenKey), ".")) # StrNode(TakenVal)
          /\ Lookup(args', SplitOn(TakenKey, ".")) = Lookup(args, SplitOn(TakenKey, "."))]_vars

\* the text between the prefix and the first "|", blanks at its ends removed
NameText == Strip(Before(Tail(response), "|"))

\* C27: the call raises, and returns nothing, for every line without the
\* prefix and for every line with the prefix whose tool name is empty.
C27_MalformedLineRaises ==
    (parse_pc # "start" /\ (~StartsWith(response, FC) \/ NameText = <<>>)) =>
        parse_pc = "raised"

\* the quote that is open after the first i characters ("none": none is)
RECURSIVE OpenQuote(_, _)
OpenQuote(t, i) ==
    IF i = 0 THEN "none"
    ELSE LET before == OpenQuote(t, i - 1)
         IN  IF t[i] \notin QuoteChars THEN before
             ELSE IF before = "none" THEN t[i]
             ELSE IF before = t[i] THEN "none"
             ELSE before

\* the number of brackets of a kind that are open after the first i
\* characters; a closing bracket that closes nothing does not count
RECURSIVE Depth(_, _, _, _)
Depth(t, i, open, close) ==
    IF i = 0 THEN 0
    ELSE LET before == Depth(t, i - 1, open, close)
             outside == OpenQuote(t, i - 1) = "none"
         IN  IF outside /\ t[i] = open THEN before + 1
             ELSE IF outside /\ t[i] = close /\ before > 0 THEN before - 1
             ELSE before

\* a "|" outside every quoted string and at nesting depth zero
IsSeparator(t, i) ==
    /\ t[i] = "|"
    /\ OpenQuote(t, i - 1) = "none"
    /\ Depth(t, i - 1, "[", "]") = 0
    /\ Depth(t, i - 1, "{", "}") = 0

\* the pieces between the separators, blanks at their ends removed, the
\* empty ones left out
RECURSIVE PiecesFrom(_, _, _)
PiecesFrom(t, i, from) ==
    LET piece == Strip(SubSeq(t, from, i - 1))
    IN  IF i > Len(t) THEN (IF piece = <<>> THEN <<>> ELSE <<piece>>)
        ELSE IF IsSeparator(t, i)
        THEN (IF piece = <<>> THEN <<>> ELSE <<piece>>) \o PiecesFrom(t, i + 1, i + 1)
        ELSE PiecesFrom(t, i + 1, from)

\* C28: the argument text is cut at exactly the "|" that lie outside every
\* quoted string and at bracket and brace depth zero, and the tool name is
\* what stands before the first "|".
C28_SeparatorsAtTopLevelOnly ==
    (parse_pc \in {"params", "returned"} /\ HeadOf(response).how = "params") =>
        /\ param_parts = PiecesFrom(HeadOf(response).param_str, 1, 1)
        /\ tool_name = NameText

\* C29: a key=value part whose key has neither suffix nor dot yields a typed
\* value: an integer literal an integer, True a boolean, a list literal a
\* list, and no such part makes the call raise.
C29_TypedValues ==
    [][(TakesParam /\ ~HasSuffix(TakenKey) /\ ~Contains(TakenKey, ".")) =>
          /\ parse_pc' # "raised"
          /\ (TakenVal # <<>> /\ \A i \in 1..Len(TakenVal) : TakenVal[i] \in Digits) =>
                 Lookup(args', <<TakenKey>>) = [t |-> "int", v |-> Number(TakenVal)]
          /\ TakenVal = <<"True">> => Lookup(args', <<TakenKey>>) = [t |-> "bool", v |-> TRUE]
          /\ TakenVal = <<"[", "5", ",", "7", "]">> =>
                 Lookup(args', <<TakenKey>>) =
                     [t |-> "list", v |-> <<[t |-> "int", v |-> 5], [t |-> "int", v |-> 7]>>]]_vars

\* the path a dotted key stands for, the suffix taken off or not
PathsOf(k) ==
    {SplitOn(k, ".")} \cup (IF HasSuffix(k) THEN {SplitOn(DropSuffix(k), ".")} ELSE {})

\* all but the last element
Most(ks) == SubSeq(ks, 1, Len(ks) - 1)

\* no top-level key of the map holds a dot
NoDottedKey(a) == \A i \in 1..Len(a.v) : ~Contains(a.v[i].key.v, ".")

\* the map at the path, if there was one, keeps every other entry it had
KeepsSiblings(before, after, ks) ==
    LET old == Lookup(before, Most(ks))
        new == Lookup(after, Most(ks))
    IN  old.t = "dict" =>
            /\ new.t = "dict"
            /\ \A i \in 1..Len(old.v) :
                  old.v[i].key # StrNode(ks[Len(ks)]) =>
                      \E j \in 1..Len(new.v) : new.v[j] = old.v[i]

\* C30: a part whose key holds dots is written at the nested path the key
\* stands for, never under a top-level key that holds a dot, and the map that
\* was at the path already keeps its other entries.
C30_DottedKeysNest ==
    [][/\ (TakesParam /\ Contains(TakenKey, ".") /\ parse_pc' # "raised") =>
             \E ks \in PathsOf(TakenKey) :
                 /\ Lookup(args', ks).t # "none"
                 /\ KeepsSiblings(args, args', ks)
       /\ NoDottedKey(args')]_vars

\* FUNCTION_CALL: add|input.x=5|input.y=7 has returned {"input": {"x": 5, "y": 7}}
C30_Witness ==
    /\ parse_pc = "returned"
    /\ response = <<FC, WS, "add", "|", "input", ".", "x", "=", "5",
                    "|", "input", ".", "y", "=", "7">>
    /\ tool_name = <<"add">>
    /\ args = [t |-> "dict",
               v |-> <<[key |-> StrNode(<<"input">>),
                        value |-> [t |-> "dict",
                                   v |-> <<[key |-> StrNode(<<"x">>),
                                            value |-> [t |-> "int", v |-> 5]],
                                           [key |-> StrNode(<<"y">>),
                                            value |-> [t |-> "int", v |-> 7]]>>]]>>]

\* ------------------------------------------------- claims on the compensation

\* the number of delivery calls among the first n entries of compLog
CallsBefore(n) == Cardinality({i \in 1..n : compLog[i] = 0})

\* C31: every two consecutive delivery attempts of the compensation are
\* separated by a delay, the k-th attempt being followed by a delay of
\* 2^(k-1) before the next one, whichever way the k-th attempt failed.
C31_BackoffBetweenAttempts ==
    \A i \in 2..Len(compLog) :
        compLog[i] = 0 => /\ compLog[i - 1] # 0
                          /\ compLog[i - 1] = 2 ^ (CallsBefore(i - 1) - 1)

\* the status reports a delivery: success vocabulary and no "failed"
ReportsSent(r) == ("sent" \in r.words \/ "simulated" \in r.words) /\ "failed" \notin r.words

\* C32: the compensation makes at most 3 delivery calls; an attempt whose
\* result reports a delivery sets email_sent and ends the compensation, and
\* no delivery call is made once the compensation has set email_sent.
C32_AtMostThreeCallsStopOnSuccess ==
    [][/\ Attempts' <= 3
       /\ \A r \in ToolResults :
              (CompReturns(r) /\ ReportsSent(r)) => (email_sent' /\ pc' = "done")
       /\ (compLog # <<>> /\ email_sent) => (compLog' = compLog /\ email_sent')]_vars

\* the third delivery call of a compensation was the one that succeeded
C32_Witness ==
    /\ pc = "done"
    /\ Attempts = 3
    /\ email_sent
    /\ flips = 1

\* the vocabulary of a failure
FailureWords == {"failed", "error", "exception"}

\* C33: a compensation attempt whose result holds neither success nor
\* failure vocabulary sets email_sent and ends the compensation; one whose
\* result holds failure vocabulary leaves email_sent false.
C33_AmbiguousIsSuccessFailureIsNot ==
    [][\A r \in ToolResults :
           CompReturns(r) =>
               /\ r.words \cap Vocabulary = {} => (email_sent' /\ pc' = "done")
               /\ r.words \cap FailureWords # {} => ~email_sent']_vars

\* ------------------------------------------------------ claims on the plan

\* the lines generate_plan returns: one line, stripped, that begins with
\* FUNCTION_CALL: or FINAL_ANSWER:
PlannerLine(plan) ==
    /\ ~Contains(plan, NL)
    /\ Strip(plan) = plan
    /\ StartsWith(plan, FC) \/ StartsWith(plan, FA)

\* C34: the Plan step records a final answer and leaves the loop only for a
\* line that begins with FINAL_ANSWER:, never for one that begins with
\* FUNCTION_CALL:, and the answer it records is that line.
C34_OnlyFinalAnswerLineEndsPlan ==
    (event.kind = "plan_final" /\ PlannerLine(event.text)) =>
        /\ ~StartsWith(event.text, FC)
        /\ StartsWith(event.text, FA)
        /\ final_answer = event.text

\* the declared parameter shape is exactly the one field named input
DeclaresInputOnly(tool) == tool \in RegisteredTools /\ ToolParameters(tool) = <<"input">>

\* C35: tool_expects_input holds of a tool exactly when its declared shape is
\* the one field named input, whichever form the tool was enumerated in; the
\* call is sent as {input: arguments} when it holds and the arguments have no
\* top-level input key, and with the arguments unchanged otherwise.
C35_WrapsIffInputOnly ==
    [][\A o \in PlanOutcomes :
           (Plan(o) /\ o.kind = "text" /\ pc' = "calling") =>
               /\ tool_expects_input(call'.tool) <=> DeclaresInputOnly(call'.tool)
               /\ call'.keys =
                      IF DeclaresInputOnly(call'.tool)
                            /\ "input" \notin parse_function_call(o.text).keys
                      THEN {"input"}
                      ELSE parse_function_call(o.text).keys]_vars

\* ---------------------------------------------------- claims on the webhook

ArrivesDuringPost(c, line) ==
    /\ calls[c].kind = "message"
    /\ calls[c].pc = "posting"
    /\ line.kind = "data"
    /\ line.id = calls[c].rid
    /\ IsResponse(current_event, line)
    /\ ReaderLine(line)

\* the slot of the call c holds the response of that call
HoldsResponse(table, c) ==
    /\ calls[c].rid \in DOMAIN table
    /\ table[calls[c].rid].state = "result"
    /\ table[calls[c].rid].id = calls[c].rid

\* C37: a response that carries the request id of a send_message and arrives
\* while that call is still in its POST is stored in the slot of the call,
\* which was registered before the POST; from then on the slot keeps it until
\* the call ends, and the call ends only by returning that response (or by
\* the error of its own POST), never by the timeout or the stream's error.
C37_EarlyResponseIsDelivered ==
    [][\A c \in 1..Len(calls) :
          /\ \A line \in CallLines :
                ArrivesDuringPost(c, line) => HoldsResponse(pending_requests', c)
          /\ (calls[c].pc \in {"posting", "awaiting"} /\ HoldsResponse(pending_requests, c)) =>
                IF calls'[c].pc = "done"
                THEN \/ calls'[c].outcome = "result" /\ calls'[c].gotId = calls[c].rid
                     \/ calls[c].pc = "posting" /\ calls'[c].outcome = "post_error"
                ELSE HoldsResponse(pending_requests', c)]_vars

\* the first request returned the response that had arrived while it was in
\* its POST, the second one is in its POST with its response already stored
C37_Witness ==
    /\ Len(calls) = 2
    /\ calls[1].outcome = "result"
    /\ calls[1].gotId = calls[1].rid
    /\ calls[2].pc = "posting"
    /\ HoldsResponse(pending_requests, 2)

\* a delivery tool called by the main loop returns r
DeliveryReturns(r) ==
    /\ call.tool \in EmailTools
    /\ \E stored \in BOOLEAN : ToolReturns(r, stored)

\* C38: when a delivery call of the main loop returns a result without failure
\* or error vocabulary, the run holds the delivery as made, so the test after
\* the loop starts no compensation; the main loop counts a returned result as
\* delivered exactly when a compensation attempt would.
C38_MainLoopAndCompensationAgree ==
    [][\A r \in ToolResults :
          DeliveryReturns(r) =>
              /\ r.words \cap FailureWords = {} =>
                    ~NeedsCompensation(TRUE, email_sent', "url")
              /\ ~email_sent =>
                    (email_sent' <=> ClassifyAttempt(r) \in {"sent", "assumed"})]_vars

\* __aenter__ has raised: the connection was refused, no session token came
\* within the wait, or the event was set with no token held
OpenFailed == open_state \in {"failed_connect", "failed_timeout", "failed_runtime"}

\* C39: once opening a client has failed, its reader task no longer runs and
\* neither its event stream nor its HTTP client is open.
C39_FailedOpenReleasesAll ==
    OpenFailed =>
        /\ sse_task \in {"none", "finished", "cancelled"}
        /\ sse_stream \in {"none", "closed"}
        /\ http_session \in {"none", "closed"}

\* One run of AgentLoop.run in which every step that can be taken eventually
\* is taken: each awaited perception, memory, planner and tool call returns
\* or raises, each sleep ends, and the code between two awaits runs on.
FairSpec == Spec /\ WF_vars(Next)

\* C40: every run ends, and at no time has it begun more than max_steps
\* iterations of the loop, made more than three compensation attempts or
\* started more than max_steps + 3 tool calls.
C40_RunTerminatesWithinBudget ==
    /\ <>(pc = "done")
    /\ [](/\ Len(stepLog) <= MaxSteps
          /\ Attempts <= 3
          /\ issued <= MaxSteps + 3)

\* a run that has returned after a tool call in each of its max_steps
\* iterations and three compensation attempts
C40_Witness ==
    /\ pc = "done"
    /\ outcome.kind = "returned"
    /\ Len(stepLog) = MaxSteps
    /\ Attempts = 3
    /\ issued = MaxSteps + 3

====
